---- MODULE Spec2Model ----
(***************************************************************************)
(* F1_Race_Results: the paged fetchers, the two season folds and the       *)
(* lru_cache memoization of src/data/fetcher.py, called by the route       *)
(* handlers of src/api/routes.py.                                          *)
(*                                                                         *)
(* Representation.  A Python str is a tuple of characters, each character  *)
(* a string: a printable ASCII character is itself ("M"), tab, line feed,  *)
(* form feed and carriage return are "\t", "\n", "\f", "\r", and every     *)
(* other character is named by its code point ("U+00B2", "U+3000").  So    *)
(* strip(), isdigit(), int(), float() and the substring test are computed  *)
(* character by character.  JSON null is Null (NullObject where an object  *)
(* is expected), a JSON integer n is Num(n), a JSON object is a record     *)
(* (the empty object is <<>>), a JSON array is a tuple.  A Python dict     *)
(* built by the code is a tuple of [k, v] records in                       *)
(* insertion order.  A Python float is a binary64: nan, inf of a sign, or  *)
(* sign * mant * 2^exp with mant an odd number of at most 53 bits, written *)
(* as the tuple of its bits, the most significant first (<<>> is zero).    *)
(* A call's outcome is a record whose field raised says whether an         *)
(* exception left the function.                                            *)
(*                                                                         *)
(* Threads.  The route handlers are plain functions, which the server runs *)
(* in a thread pool, and lru_cache holds no lock while the function it     *)
(* wraps runs.  So calls overlap, and a call is a sequence of steps, one   *)
(* for each access to a cache: the lookup, and, after a miss, the store    *)
(* that follows the requests or the fold.  The requests of a call and the  *)
(* computation on what they returned touch nothing that another call       *)
(* reads, and belong to the step of the store they precede.                *)
(***************************************************************************)
EXTENDS Integers, Sequences, FiniteSets, Bags, TLC

VARIABLES
    call,     \* the call that has just returned: operation, season, what it met
    ret,      \* what it gave the handler: value or exception, offsets requested, status
    cache,    \* lru_cache of each decorated function: tuple of [k, v], least recent first
    swept,    \* the clients' course: seasons 1..swept.n asked for, operation in use, extra calls
    flight,   \* the calls that missed and have not returned, each where it stands: a bag
    upstream  \* what the upstream API holds

vars == <<call, ret, cache, swept, flight, upstream>>

-----------------------------------------------------------------------------
(* Program constants *)

limit == 100

maxsize == 10

-----------------------------------------------------------------------------
(* Characters *)

\* the characters str.isspace() accepts: the ones str.strip() removes
Whitespace ==
    {"\t", "\n", "U+000B", "\f", "\r", "U+001C", "U+001D", "U+001E", "U+001F", " ", "U+0085",
     "U+00A0", "U+1680", "U+2000", "U+2001", "U+2002", "U+2003", "U+2004", "U+2005", "U+2006",
     "U+2007", "U+2008", "U+2009", "U+200A", "U+2028", "U+2029", "U+202F", "U+205F", "U+3000"}

\* the characters int() and float() skip around a number
NumericSpace == Whitespace \ {"U+001C", "U+001D", "U+001E", "U+001F"}

\* the decimal digits of every script, by value: Decimals[v + 1] are the digits v
Decimals ==
    <<{"0", "U+0660", "U+06F0", "U+07C0", "U+0966", "U+09E6", "U+0A66", "U+0AE6", "U+0B66",
      "U+0BE6", "U+0C66", "U+0CE6", "U+0D66", "U+0DE6", "U+0E50", "U+0ED0", "U+0F20", "U+1040",
      "U+1090", "U+17E0", "U+1810", "U+1946", "U+19D0", "U+1A80", "U+1A90", "U+1B50", "U+1BB0",
      "U+1C40", "U+1C50", "U+A620", "U+A8D0", "U+A900", "U+A9D0", "U+A9F0", "U+AA50", "U+ABF0",
      "U+FF10", "U+104A0", "U+10D30", "U+11066", "U+110F0", "U+11136", "U+111D0", "U+112F0",
      "U+11450", "U+114D0", "U+11650", "U+116C0", "U+11730", "U+118E0", "U+11950", "U+11C50",
      "U+11D50", "U+11DA0", "U+16A60", "U+16AC0", "U+16B50", "U+1D7CE", "U+1D7D8", "U+1D7E2",
      "U+1D7EC", "U+1D7F6", "U+1E140", "U+1E2F0", "U+1E950", "U+1FBF0"},
      {"1", "U+0661", "U+06F1", "U+07C1", "U+0967", "U+09E7", "U+0A67", "U+0AE7", "U+0B67",
      "U+0BE7", "U+0C67", "U+0CE7", "U+0D67", "U+0DE7", "U+0E51", "U+0ED1", "U+0F21", "U+1041",
      "U+1091", "U+17E1", "U+1811", "U+1947", "U+19D1", "U+1A81", "U+1A91", "U+1B51", "U+1BB1",
      "U+1C41", "U+1C51", "U+A621", "U+A8D1", "U+A901", "U+A9D1", "U+A9F1", "U+AA51", "U+ABF1",
      "U+FF11", "U+104A1", "U+10D31", "U+11067", "U+110F1", "U+11137", "U+111D1", "U+112F1",
      "U+11451", "U+114D1", "U+11651", "U+116C1", "U+11731", "U+118E1", "U+11951", "U+11C51",
      "U+11D51", "U+11DA1", "U+16A61", "U+16AC1", "U+16B51", "U+1D7CF", "U+1D7D9", "U+1D7E3",
      "U+1D7ED", "U+1D7F7", "U+1E141", "U+1E2F1", "U+1E951", "U+1FBF1"},
      {"2", "U+0662", "U+06F2", "U+07C2", "U+0968", "U+09E8", "U+0A68", "U+0AE8", "U+0B68",
      "U+0BE8", "U+0C68", "U+0CE8", "U+0D68", "U+0DE8", "U+0E52", "U+0ED2", "U+0F22", "U+1042",
      "U+1092", "U+17E2", "U+1812", "U+1948", "U+19D2", "U+1A82", "U+1A92", "U+1B52", "U+1BB2",
      "U+1C42", "U+1C52", "U+A622", "U+A8D2", "U+A902", "U+A9D2", "U+A9F2", "U+AA52", "U+ABF2",
      "U+FF12", "U+104A2", "U+10D32", "U+11068", "U+110F2", "U+11138", "U+111D2", "U+112F2",
      "U+11452", "U+114D2", "U+11652", "U+116C2", "U+11732", "U+118E2", "U+11952", "U+11C52",
      "U+11D52", "U+11DA2", "U+16A62", "U+16AC2", "U+16B52", "U+1D7D0", "U+1D7DA", "U+1D7E4",
      "U+1D7EE", "U+1D7F8", "U+1E142", "U+1E2F2", "U+1E952", "U+1FBF2"},
      {"3", "U+0663", "U+06F3", "U+07C3", "U+0969", "U+09E9", "U+0A69", "U+0AE9", "U+0B69",
      "U+0BE9", "U+0C69", "U+0CE9", "U+0D69", "U+0DE9", "U+0E53", "U+0ED3", "U+0F23", "U+1043",
      "U+1093", "U+17E3", "U+1813", "U+1949", "U+19D3", "U+1A83", "U+1A93", "U+1B53", "U+1BB3",
      "U+1C43", "U+1C53", "U+A623", "U+A8D3", "U+A903", "U+A9D3", "U+A9F3", "U+AA53", "U+ABF3",
      "U+FF13", "U+104A3", "U+10D33", "U+11069", "U+110F3", "U+11139", "U+111D3", "U+112F3",
      "U+11453", "U+114D3", "U+11653", "U+116C3", "U+11733", "U+118E3", "U+11953", "U+11C53",
      "U+11D53", "U+11DA3", "U+16A63", "U+16AC3", "U+16B53", "U+1D7D1", "U+1D7DB", "U+1D7E5",
      "U+1D7EF", "U+1D7F9", "U+1E143", "U+1E2F3", "U+1E953", "U+1FBF3"},
      {"4", "U+0664", "U+06F4", "U+07C4", "U+096A", "U+09EA", "U+0A6A", "U+0AEA", "U+0B6A",
      "U+0BEA", "U+0C6A", "U+0CEA", "U+0D6A", "U+0DEA", "U+0E54", "U+0ED4", "U+0F24", "U+1044",
      "U+1094", "U+17E4", "U+1814", "U+194A", "U+19D4", "U+1A84", "U+1A94", "U+1B54", "U+1BB4",
      "U+1C44", "U+1C54", "U+A624", "U+A8D4", "U+A904", "U+A9D4", "U+A9F4", "U+AA54", "U+ABF4",
      "U+FF14", "U+104A4", "U+10D34", "U+1106A", "U+110F4", "U+1113A", "U+111D4", "U+112F4",
      "U+11454", "U+114D4", "U+11654", "U+116C4", "U+11734", "U+118E4", "U+11954", "U+11C54",
      "U+11D54", "U+11DA4", "U+16A64", "U+16AC4", "U+16B54", "U+1D7D2", "U+1D7DC", "U+1D7E6",
      "U+1D7F0", "U+1D7FA", "U+1E144", "U+1E2F4", "U+1E954", "U+1FBF4"},
      {"5", "U+0665", "U+06F5", "U+07C5", "U+096B", "U+09EB", "U+0A6B", "U+0AEB", "U+0B6B",
      "U+0BEB", "U+0C6B", "U+0CEB", "U+0D6B", "U+0DEB", "U+0E55", "U+0ED5", "U+0F25", "U+1045",
      "U+1095", "U+17E5", "U+1815", "U+194B", "U+19D5", "U+1A85", "U+1A95", "U+1B55", "U+1BB5",
      "U+1C45", "U+1C55", "U+A625", "U+A8D5", "U+A905", "U+A9D5", "U+A9F5", "U+AA55", "U+ABF5",
      "U+FF15", "U+104A5", "U+10D35", "U+1106B", "U+110F5", "U+1113B", "U+111D5", "U+112F5",
      "U+11455", "U+114D5", "U+11655", "U+116C5", "U+11735", "U+118E5", "U+11955", "U+11C55",
      "U+11D55", "U+11DA5", "U+16A65", "U+16AC5", "U+16B55", "U+1D7D3", "U+1D7DD", "U+1D7E7",
      "U+1D7F1", "U+1D7FB", "U+1E145", "U+1E2F5", "U+1E955", "U+1FBF5"},
      {"6", "U+0666", "U+06F6", "U+07C6", "U+096C", "U+09EC", "U+0A6C", "U+0AEC", "U+0B6C",
      "U+0BEC", "U+0C6C", "U+0CEC", "U+0D6C", "U+0DEC", "U+0E56", "U+0ED6", "U+0F26", "U+1046",
      "U+1096", "U+17E6", "U+1816", "U+194C", "U+19D6", "U+1A86", "U+1A96", "U+1B56", "U+1BB6",
      "U+1C46", "U+1C56", "U+A626", "U+A8D6", "U+A906", "U+A9D6", "U+A9F6", "U+AA56", "U+ABF6",
      "U+FF16", "U+104A6", "U+10D36", "U+1106C", "U+110F6", "U+1113C", "U+111D6", "U+112F6",
      "U+11456", "U+114D6", "U+11656", "U+116C6", "U+11736", "U+118E6", "U+11956", "U+11C56",
      "U+11D56", "U+11DA6", "U+16A66", "U+16AC6", "U+16B56", "U+1D7D4", "U+1D7DE", "U+1D7E8",
      "U+1D7F2", "U+1D7FC", "U+1E146", "U+1E2F6", "U+1E956", "U+1FBF6"},
      {"7", "U+0667", "U+06F7", "U+07C7", "U+096D", "U+09ED", "U+0A6D", "U+0AED", "U+0B6D",
      "U+0BED", "U+0C6D", "U+0CED", "U+0D6D", "U+0DED", "U+0E57", "U+0ED7", "U+0F27", "U+1047",
      "U+1097", "U+17E7", "U+1817", "U+194D", "U+19D7", "U+1A87", "U+1A97", "U+1B57", "U+1BB7",
      "U+1C47", "U+1C57", "U+A627", "U+A8D7", "U+A907", "U+A9D7", "U+A9F7", "U+AA57", "U+ABF7",
      "U+FF17", "U+104A7", "U+10D37", "U+1106D", "U+110F7", "U+1113D", "U+111D7", "U+112F7",
      "U+11457", "U+114D7", "U+11657", "U+116C7", "U+11737", "U+118E7", "U+11957", "U+11C57",
      "U+11D57", "U+11DA7", "U+16A67", "U+16AC7", "U+16B57", "U+1D7D5", "U+1D7DF", "U+1D7E9",
      "U+1D7F3", "U+1D7FD", "U+1E147", "U+1E2F7", "U+1E957", "U+1FBF7"},
      {"8", "U+0668", "U+06F8", "U+07C8", "U+096E", "U+09EE", "U+0A6E", "U+0AEE", "U+0B6E",
      "U+0BEE", "U+0C6E", "U+0CEE", "U+0D6E", "U+0DEE", "U+0E58", "U+0ED8", "U+0F28", "U+1048",
      "U+1098", "U+17E8", "U+1818", "U+194E", "U+19D8", "U+1A88", "U+1A98", "U+1B58", "U+1BB8",
      "U+1C48", "U+1C58", "U+A628", "U+A8D8", "U+A908", "U+A9D8", "U+A9F8", "U+AA58", "U+ABF8",
      "U+FF18", "U+104A8", "U+10D38", "U+1106E", "U+110F8", "U+1113E", "U+111D8", "U+112F8",
      "U+11458", "U+114D8", "U+11658", "U+116C8", "U+11738", "U+118E8", "U+11958", "U+11C58",
      "U+11D58", "U+11DA8", "U+16A68", "U+16AC8", "U+16B58", "U+1D7D6", "U+1D7E0", "U+1D7EA",
      "U+1D7F4", "U+1D7FE", "U+1E148", "U+1E2F8", "U+1E958", "U+1FBF8"},
      {"9", "U+0669", "U+06F9", "U+07C9", "U+096F", "U+09EF", "U+0A6F", "U+0AEF", "U+0B6F",
      "U+0BEF", "U+0C6F", "U+0CEF", "U+0D6F", "U+0DEF", "U+0E59", "U+0ED9", "U+0F29", "U+1049",
      "U+1099", "U+17E9", "U+1819", "U+194F", "U+19D9", "U+1A89", "U+1A99", "U+1B59", "U+1BB9",
      "U+1C49", "U+1C59", "U+A629", "U+A8D9", "U+A909", "U+A9D9", "U+A9F9", "U+AA59", "U+ABF9",
      "U+FF19", "U+104A9", "U+10D39", "U+1106F", "U+110F9", "U+1113F", "U+111D9", "U+112F9",
      "U+11459", "U+114D9", "U+11659", "U+116C9", "U+11739", "U+118E9", "U+11959", "U+11C59",
      "U+11D59", "U+11DA9", "U+16A69", "U+16AC9", "U+16B59", "U+1D7D7", "U+1D7E1", "U+1D7EB",
      "U+1D7F5", "U+1D7FF", "U+1E149", "U+1E2F9", "U+1E959", "U+1FBF9"}>>

DecimalDigits == UNION {Decimals[i] : i \in 1..10}

\* the characters str.isdigit() accepts: the decimal digits, and those int()
\* does not accept: superscripts, circled digits, ...
Digits ==
    DecimalDigits \cup
    {"U+00B2", "U+00B3", "U+00B9", "U+1369", "U+136A", "U+136B", "U+136C", "U+136D", "U+136E",
     "U+136F", "U+1370", "U+1371", "U+19DA", "U+2070", "U+2074", "U+2075", "U+2076", "U+2077",
     "U+2078", "U+2079", "U+2080", "U+2081", "U+2082", "U+2083", "U+2084", "U+2085", "U+2086",
     "U+2087", "U+2088", "U+2089", "U+2460", "U+2461", "U+2462", "U+2463", "U+2464", "U+2465",
     "U+2466", "U+2467", "U+2468", "U+2474", "U+2475", "U+2476", "U+2477", "U+2478", "U+2479",
     "U+247A", "U+247B", "U+247C", "U+2488", "U+2489", "U+248A", "U+248B", "U+248C", "U+248D",
     "U+248E", "U+248F", "U+2490", "U+24EA", "U+24F5", "U+24F6", "U+24F7", "U+24F8", "U+24F9",
     "U+24FA", "U+24FB", "U+24FC", "U+24FD", "U+24FF", "U+2776", "U+2777", "U+2778", "U+2779",
     "U+277A", "U+277B", "U+277C", "U+277D", "U+277E", "U+2780", "U+2781", "U+2782", "U+2783",
     "U+2784", "U+2785", "U+2786", "U+2787", "U+2788", "U+278A", "U+278B", "U+278C", "U+278D",
     "U+278E", "U+278F", "U+2790", "U+2791", "U+2792", "U+10A40", "U+10A41", "U+10A42",
     "U+10A43", "U+10E60", "U+10E61", "U+10E62", "U+10E63", "U+10E64", "U+10E65", "U+10E66",
     "U+10E67", "U+10E68", "U+11052", "U+11053", "U+11054", "U+11055", "U+11056", "U+11057",
     "U+11058", "U+11059", "U+1105A", "U+1F100", "U+1F101", "U+1F102", "U+1F103", "U+1F104",
     "U+1F105", "U+1F106", "U+1F107", "U+1F108", "U+1F109", "U+1F10A"}

DigitVal(c) == CHOOSE v \in 0..9 : c \in Decimals[v + 1]

DigitChar(n) ==
    CASE n = 0 -> "0" [] n = 1 -> "1" [] n = 2 -> "2" [] n = 3 -> "3"
      [] n = 4 -> "4" [] n = 5 -> "5" [] n = 6 -> "6" [] n = 7 -> "7"
      [] n = 8 -> "8" [] n = 9 -> "9"

-----------------------------------------------------------------------------
(* Python values *)

Min(a, b) == IF a <= b THEN a ELSE b

EmptyDict == <<>>

\* d.get(k, default) on a JSON object
PyGet(d, k, default) == IF k \in DOMAIN d THEN d[k] ELSE default

\* JSON null, Python None
Null == <<"null">>

\* JSON null where the code expects an object: None has no .get
NullObject == [NoneType |-> TRUE]

IsNullObject(d) == "NoneType" \in DOMAIN d

\* a JSON integer, Python int
Num(n) == <<"number", n>>

IsNum(x) == Len(x) = 2 /\ x[1] = "number"

IsStr(x) == x # Null /\ ~IsNum(x)

RECURSIVE ToDigits(_)
ToDigits(n) ==
    IF n < 10 THEN <<DigitChar(n)>>
    ELSE Append(ToDigits(n \div 10), DigitChar(n % 10))

\* str(x) as an f-string formats it
PyStr(x) ==
    IF x = Null THEN <<"N", "o", "n", "e">>
    ELSE IF IsNum(x) THEN (IF x[2] < 0 THEN <<"-">> \o ToDigits(-x[2]) ELSE ToDigits(x[2]))
    ELSE x

\* truth value of a str, an int or None
PyTruthy(x) ==
    IF x = Null THEN FALSE
    ELSE IF IsNum(x) THEN x[2] # 0
    ELSE Len(x) > 0

\* str.isdigit(): non-empty and every character a digit
IsDigitStr(s) == Len(s) > 0 /\ \A i \in 1..Len(s) : s[i] \in Digits

RECURSIVE StripLeft(_, _)
StripLeft(s, ws) == IF Len(s) > 0 /\ s[1] \in ws THEN StripLeft(Tail(s), ws) ELSE s

RECURSIVE StripRight(_, _)
StripRight(s, ws) ==
    IF Len(s) > 0 /\ s[Len(s)] \in ws THEN StripRight(SubSeq(s, 1, Len(s) - 1), ws) ELSE s

\* str.strip()
PyStrip(s) == StripRight(StripLeft(s, Whitespace), Whitespace)

\* the text of a number without the space around it
NumericStrip(s) == StripRight(StripLeft(s, NumericSpace), NumericSpace)

SignOf(s) == IF Len(s) > 0 /\ s[1] = "-" THEN -1 ELSE 1

Unsigned(s) == IF Len(s) > 0 /\ s[1] \in {"+", "-"} THEN Tail(s) ELSE s

\* decimal digits, single underscores allowed between two of them
IsDigitGroup(s) ==
    /\ Len(s) > 0
    /\ s[1] # "_"
    /\ s[Len(s)] # "_"
    /\ \A i \in 1..Len(s) : s[i] = "_" \/ s[i] \in DecimalDigits
    /\ \A i \in 1..(Len(s) - 1) : s[i] = "_" => s[i + 1] # "_"

DigitsOnly(s) == SelectSeq(s, LAMBDA c : c # "_")

RECURSIVE DigitsToInt(_)
DigitsToInt(s) ==
    IF Len(s) = 0 THEN 0
    ELSE 10 * DigitsToInt(SubSeq(s, 1, Len(s) - 1)) + DigitVal(s[Len(s)])

\* int(s) of a str: the value, or ValueError
PyIntOfStr(s) ==
    LET t == NumericStrip(s)
    IN  IF IsDigitGroup(Unsigned(t))
        THEN [raised |-> FALSE, v |-> SignOf(t) * DigitsToInt(DigitsOnly(Unsigned(t)))]
        ELSE [raised |-> TRUE, v |-> 0]

\* int(x): of an int the int, of None a TypeError
PyInt(x) ==
    IF x = Null THEN [raised |-> TRUE, v |-> 0]
    ELSE IF IsNum(x) THEN [raised |-> FALSE, v |-> x[2]]
    ELSE PyIntOfStr(x)

-----------------------------------------------------------------------------
(* Python float: IEEE 754 binary64, round to nearest, ties to even.  A      *)
(* finite value is sign * mant * 2^exp, mant a natural number written in    *)
(* bits, most significant first, odd (so the writing is unique) and of at   *)
(* most 53 bits, exp >= -1074; zero is the empty mant.  Naturals of any     *)
(* size are tuples of bits, the empty tuple being 0.                        *)

Max(a, b) == IF a >= b THEN a ELSE b

Abs(n) == IF n < 0 THEN -n ELSE n

\* the element of a set of one: The({e(x) : x \in {v}}) is e(v), with v
\* worked out once, before e
The(S) == CHOOSE x \in S : TRUE

\* the bits without the zeros in front
BitsTrim(b) ==
    The({IF \A i \in 1..Len(x) : x[i] = 0 THEN <<>>
         ELSE SubSeq(x, CHOOSE i \in 1..Len(x) : x[i] = 1 /\ \A j \in 1..(i - 1) : x[j] = 0,
                     Len(x)) : x \in {b}})

\* the bits with zeros in front, up to n bits
BitsPad(b, n) == [i \in 1..(n - Len(b)) |-> 0] \o b

RECURSIVE BitsOfNat(_)
BitsOfNat(n) == IF n = 0 THEN <<>> ELSE Append(BitsOfNat(n \div 2), n % 2)

\* the bits lo..hi of a + b + carry, carry coming in at bit hi, and the carry
\* going out at bit lo; a and b of the same length.  The loops over the bits
\* are folded by halves, the lower half first
RECURSIVE BitsAddRange(_, _, _, _, _)
BitsAddRange(a, b, lo, hi, carry) ==
    IF lo = hi
    THEN [bits |-> <<(a[lo] + b[lo] + carry) % 2>>, carry |-> (a[lo] + b[lo] + carry) \div 2]
    ELSE The({The({[bits |-> high.bits \o low.bits, carry |-> high.carry] :
                   high \in {BitsAddRange(a, b, lo, (lo + hi) \div 2, low.carry)}}) :
              low \in {BitsAddRange(a, b, (lo + hi) \div 2 + 1, hi, carry)}})

BitsAdd(a, b) ==
    The({IF Len(x) = 0 THEN <<>>
         ELSE The({IF r.carry = 1 THEN <<1>> \o r.bits ELSE r.bits :
                   r \in {BitsAddRange(x, y, 1, Len(x), 0)}}) :
         x \in {BitsPad(a, Max(Len(a), Len(b)))}, y \in {BitsPad(b, Max(Len(a), Len(b)))}})

\* the bits lo..hi of a - b - borrow, a and b of the same length
RECURSIVE BitsSubRange(_, _, _, _, _)
BitsSubRange(a, b, lo, hi, borrow) ==
    IF lo = hi
    THEN [bits |-> <<(a[lo] - b[lo] - borrow + 2) % 2>>,
          borrow |-> IF a[lo] - b[lo] - borrow < 0 THEN 1 ELSE 0]
    ELSE The({The({[bits |-> high.bits \o low.bits, borrow |-> high.borrow] :
                   high \in {BitsSubRange(a, b, lo, (lo + hi) \div 2, low.borrow)}}) :
              low \in {BitsSubRange(a, b, (lo + hi) \div 2 + 1, hi, borrow)}})

\* a - b, a >= b
BitsSub(a, b) ==
    The({IF Len(x) = 0 THEN <<>> ELSE BitsTrim(BitsSubRange(x, y, 1, Len(x), 0).bits) :
         x \in {BitsPad(a, Max(Len(a), Len(b)))}, y \in {BitsPad(b, Max(Len(a), Len(b)))}})

\* a < b, of bits without zeros in front
BitsLess(a, b) ==
    \E x \in {a}, y \in {b} :
        \/ Len(x) < Len(y)
        \/ /\ Len(x) = Len(y)
           /\ \E i \in 1..Len(x) : x[i] < y[i] /\ \A j \in 1..(i - 1) : x[j] = y[j]

\* b * 2^k
BitsShift(b, k) == IF Len(b) = 0 THEN <<>> ELSE b \o [i \in 1..k |-> 0]

BitsTimesTen(b) == The({BitsAdd(BitsShift(x, 3), BitsShift(x, 1)) : x \in {b}})

\* b * 10^k
RECURSIVE BitsTimesPow10(_, _)
BitsTimesPow10(b, k) ==
    IF k = 0 THEN b
    ELSE IF k = 1 THEN BitsTimesTen(b)
    ELSE The({BitsTimesPow10(half, k - k \div 2) : half \in {BitsTimesPow10(b, k \div 2)}})

\* 10^(hi - lo + 1) * acc + the natural number the digits lo..hi of s spell
RECURSIVE BitsOfDigits(_, _, _, _)
BitsOfDigits(s, lo, hi, acc) ==
    IF lo > hi THEN acc
    ELSE IF lo = hi THEN BitsAdd(BitsTimesTen(acc), BitsOfNat(DigitVal(s[lo])))
    ELSE The({BitsOfDigits(s, (lo + hi) \div 2 + 1, hi, half) :
              half \in {BitsOfDigits(s, lo, (lo + hi) \div 2, acc)}})

\* the natural number a string of decimal digits spells
BitsOfDecimal(s) == The({BitsOfDigits(x, 1, Len(x), <<>>) : x \in {s}})

\* the long division of n by d, for the bits lo..hi of n: at each step the
\* next bit of the dividend comes down to the remainder st.r and the quotient
\* st.q gets its next bit
RECURSIVE BitsDivRange(_, _, _, _, _)
BitsDivRange(n, d, lo, hi, st) ==
    IF lo > hi THEN st
    ELSE IF lo = hi
    THEN The({IF BitsLess(rem, d) THEN [q |-> Append(st.q, 0), r |-> rem]
              ELSE [q |-> Append(st.q, 1), r |-> BitsSub(rem, d)] :
              rem \in {BitsTrim(Append(st.r, n[lo]))}})
    ELSE The({BitsDivRange(n, d, (lo + hi) \div 2 + 1, hi, half) :
              half \in {BitsDivRange(n, d, lo, (lo + hi) \div 2, st)}})

\* quotient q and remainder r of n by d
BitsDiv(n, d) ==
    The({[q |-> BitsTrim(st.q), r |-> st.r] :
         st \in {The({BitsDivRange(x, y, 1, Len(x), [q |-> <<>>, r |-> <<>>]) :
                      x \in {n}, y \in {d}})}})

Nan == [kind |-> "nan", sign |-> 1, mant |-> <<>>, exp |-> 0]

Inf(sign) == [kind |-> "inf", sign |-> sign, mant |-> <<>>, exp |-> 0]

Zero(sign) == [kind |-> "finite", sign |-> sign, mant |-> <<>>, exp |-> 0]

\* the bits without the zeros at the end, which go into the exponent
Finite(sign, bits, exp) ==
    The({[kind |-> "finite", sign |-> sign, mant |-> SubSeq(bits, 1, last),
          exp |-> exp + Len(bits) - last] :
         last \in {CHOOSE i \in 1..Len(bits) :
                       bits[i] = 1 /\ \A j \in (i + 1)..Len(bits) : bits[j] = 0}})

\* bits rounded to the bits before bit keep + 1: up when the bits dropped are
\* more than half a unit, or half a unit and bit keep is odd
RoundedTo(bits, keep, sticky) ==
    LET kept == IF keep > 0 THEN SubSeq(bits, 1, keep) ELSE <<>>
        half == keep >= 0 /\ bits[keep + 1] = 1
        rest == sticky \/ keep < 0 \/ \E i \in (keep + 2)..Len(bits) : bits[i] = 1
        odd  == keep > 0 /\ bits[keep] = 1
    IN  IF half /\ (rest \/ odd) THEN BitsAdd(kept, <<1>>) ELSE kept

\* the binary64 nearest to sign * (bits + a fraction) * 2^exp, ties to even;
\* sticky says that the fraction is there, and then bits has 55 bits or more.
\* unit is the exponent of the last bit a binary64 of this size has
Round(sign, bits, exp, sticky) ==
    The({LET top  == exp + Len(b) - 1
             unit == Max(top - 52, -1074)
         IN  IF exp >= unit THEN (IF top >= 1024 THEN Inf(sign) ELSE Finite(sign, b, exp))
             ELSE The({IF Len(m) = 0 THEN Zero(sign)
                       ELSE IF unit + Len(m) - 1 >= 1024 THEN Inf(sign)
                       ELSE Finite(sign, m, unit) :
                       m \in {RoundedTo(b, Len(b) - (unit - exp), sticky)}}) :
         b \in {bits}})

\* float(n) of an int
Float(n) == IF n = 0 THEN Zero(1) ELSE Round(IF n < 0 THEN -1 ELSE 1, BitsOfNat(Abs(n)), 0, FALSE)

\* the binary64 nearest to sign * n / d: the quotient of n * 2^s by d, to 55
\* bits or more
FloatOfRatio(sign, n, d) ==
    The({The({Round(sign, qr.q, -Max(0, 55 + Len(y) - Len(x)), Len(qr.r) > 0) :
              qr \in {BitsDiv(BitsShift(x, Max(0, 55 + Len(y) - Len(x))), y)}}) :
         x \in {n}, y \in {d}})

\* a + b of two floats that are neither zero, inf nor nan; the smaller one
\* only counts as a fraction when it lies more than 64 bits below
FloatSum(a, b) ==
    LET atop == a.exp + Len(a.mant)
        btop == b.exp + Len(b.mant)
        e    == Min(a.exp, b.exp)
    IN  IF atop > btop + 64 THEN a
        ELSE IF btop > atop + 64 THEN b
        ELSE The({IF a.sign = b.sign THEN Round(a.sign, BitsAdd(x, y), e, FALSE)
                  ELSE IF x = y THEN Zero(1)
                  ELSE IF BitsLess(x, y) THEN Round(b.sign, BitsSub(y, x), e, FALSE)
                  ELSE Round(a.sign, BitsSub(x, y), e, FALSE) :
                  x \in {BitsShift(a.mant, a.exp - e)}, y \in {BitsShift(b.mant, b.exp - e)}})

\* a + b of two floats
FloatAdd(a, b) ==
    The({IF x.kind = "nan" \/ y.kind = "nan" THEN Nan
         ELSE IF x.kind = "inf" THEN (IF y.kind = "inf" /\ y.sign # x.sign THEN Nan ELSE x)
         ELSE IF y.kind = "inf" THEN y
         ELSE IF Len(x.mant) = 0 /\ Len(y.mant) = 0
              THEN Zero(IF x.sign = -1 /\ y.sign = -1 THEN -1 ELSE 1)
         ELSE IF Len(x.mant) = 0 THEN y
         ELSE IF Len(y.mant) = 0 THEN x
         ELSE FloatSum(x, y) :
         x \in {a}, y \in {b}})

\* the word in any mix of upper and lower case
IsWord(s, lower, upper) ==
    /\ Len(s) = Len(lower)
    /\ \A i \in 1..Len(s) : s[i] \in {lower[i], upper[i]}

\* [sign] digits [. digits] [e [sign] digits], or [sign] . digits [...]:
\* the binary64 nearest to the decimal number
FloatOfDecimal(sign, t) ==
    LET es    == {i \in 1..Len(t) : t[i] \in {"e", "E"}}
        e     == IF es = {} THEN Len(t) + 1 ELSE CHOOSE i \in es : TRUE
        mant  == SubSeq(t, 1, e - 1)
        etext == SubSeq(t, e + 1, Len(t))
        dots  == {i \in 1..Len(mant) : mant[i] = "."}
        dot   == IF dots = {} THEN Len(mant) + 1 ELSE CHOOSE i \in dots : TRUE
        whole == SubSeq(mant, 1, dot - 1)
        frac  == SubSeq(mant, dot + 1, Len(mant))
        ok    == /\ Cardinality(es) <= 1
                 /\ es # {} => IsDigitGroup(Unsigned(etext))
                 /\ Cardinality(dots) <= 1
                 /\ Len(whole) = 0 \/ IsDigitGroup(whole)
                 /\ Len(frac) = 0 \/ IsDigitGroup(frac)
                 /\ Len(whole) + Len(frac) > 0
    IN  IF ~ok THEN [raised |-> TRUE, v |-> Nan]
        ELSE
        LET text   == DigitsOnly(whole) \o DigitsOnly(frac)
            lead   == {i \in 1..Len(text) : DigitVal(text[i]) # 0}
            first  == CHOOSE i \in lead : \A j \in lead : i <= j
            digits == SubSeq(text, first, Len(text))
            \* the exponent after e: the digits of a number no float reaches
            \* count as 9999999
            edigits == DigitsOnly(Unsigned(etext))
            elead   == {i \in 1..Len(edigits) : DigitVal(edigits[i]) # 0}
            exp    == (IF es = {} THEN 0
                       ELSE SignOf(etext) * (IF \E i \in elead : Len(edigits) - i >= 7
                                             THEN 9999999
                                             ELSE DigitsToInt(edigits)))
                      - Len(DigitsOnly(frac))
            \* the number lies in [10^size, 10^(size + 1))
            size   == Len(digits) - 1 + exp
        IN  [raised |-> FALSE,
             v |-> IF lead = {} THEN Zero(sign)
                   ELSE IF size >= 309 THEN Inf(sign)
                   ELSE IF size <= -325 THEN Zero(sign)
                   ELSE IF exp >= 0
                        THEN Round(sign, BitsTimesPow10(BitsOfDecimal(digits), exp), 0, FALSE)
                        ELSE FloatOfRatio(sign, BitsOfDecimal(digits),
                                          BitsTimesPow10(<<1>>, -exp))]

\* float(x): of a str the number it spells or ValueError, of an int the int,
\* of None a TypeError
PyFloatOfStr(x) ==
    IF x = Null THEN [raised |-> TRUE, v |-> Nan]
    ELSE IF IsNum(x) THEN [raised |-> FALSE, v |-> Float(x[2])]
    ELSE
    LET s == NumericStrip(x)
        t == Unsigned(s)
    IN  IF IsWord(t, <<"i", "n", "f">>, <<"I", "N", "F">>) \/ IsWord(t, <<"i", "n", "f", "i", "n", "i", "t", "y">>, <<"I", "N", "F", "I", "N", "I", "T", "Y">>)
        THEN [raised |-> FALSE, v |-> Inf(SignOf(s))]
        ELSE IF IsWord(t, <<"n", "a", "n">>, <<"N", "A", "N">>) THEN [raised |-> FALSE, v |-> Nan]
        ELSE FloatOfDecimal(SignOf(s), t)

\* sub in s
Contains(s, sub) ==
    \E i \in 1..(Len(s) - Len(sub) + 1) : SubSeq(s, i, i + Len(sub) - 1) = sub

\* a dict the code builds: [k, v] records in insertion order
DictHas(d, k) == \E i \in 1..Len(d) : d[i].k = k

DictIndex(d, k) == CHOOSE i \in 1..Len(d) : d[i].k = k

\* d.get(k, default)
DictGet(d, k, default) == IF DictHas(d, k) THEN d[DictIndex(d, k)].v ELSE default

\* d[k] = v: a key already there keeps its place
DictSet(d, k, v) ==
    IF DictHas(d, k) THEN [d EXCEPT ![DictIndex(d, k)] = [k |-> k, v |-> v]]
    ELSE Append(d, [k |-> k, v |-> v])

-----------------------------------------------------------------------------
(* The upstream API: a paged source holding src.items, serving at most      *)
(* src.cap items per request, declaring total = Len(src.items), whose       *)
(* request number src.badAt (0: none) is answered as src.badKind says.      *)

RaisingKinds == {"HTTP_ERROR", "NETWORK_ERROR", "BAD_JSON"}

\* pages that lack the nesting path to the items
MissingPathKinds == {"NO_MRDATA", "NO_TABLE", "NO_LISTS", "NO_CHUNK"}

\* those, and the pages whose items array is there and empty
NoPathKinds == MissingPathKinds \cup {"EMPTY_LISTS", "EMPTY_CHUNK"}

\* pages whose total is not the plain count: absent, not a number, written with
\* a space or a sign, a JSON number, negative, null
TotalKinds ==
    {"NO_TOTAL", "BAD_TOTAL", "SPACED_TOTAL", "SIGNED_TOTAL", "NUMBER_TOTAL",
     "NEGATIVE_TOTAL", "NULL_TOTAL"}

BadKinds == RaisingKinds \cup NoPathKinds \cup TotalKinds

PageItems(src, lim, offset) ==
    LET lo == offset + 1
        hi == Min(offset + Min(lim, src.cap), Len(src.items))
    IN  IF hi < lo THEN <<>> ELSE SubSeq(src.items, lo, hi)

\* the table object of a page carrying the items
TableOf(resource, items) ==
    CASE resource = "driverStandings" ->
             [StandingsLists |-> IF Len(items) = 0 THEN <<>>
                                 ELSE <<[DriverStandings |-> items]>>]
      [] resource = "constructorStandings" ->
             [StandingsLists |-> IF Len(items) = 0 THEN <<>>
                                 ELSE <<[ConstructorStandings |-> items]>>]
      [] resource = "results" -> [Races |-> items]

\* the same table with the innermost array emptied or removed
TableBroken(resource, kind) ==
    CASE kind = "NO_LISTS" -> [season |-> <<"1">>]
      [] kind = "EMPTY_LISTS" ->
             IF resource = "results" THEN [Races |-> <<>>] ELSE [StandingsLists |-> <<>>]
      [] kind = "NO_CHUNK" ->
             IF resource = "results" THEN [season |-> <<"1">>]
             ELSE [StandingsLists |-> <<[season |-> <<"1">>]>>]
      [] kind = "EMPTY_CHUNK" ->
             IF resource = "results" THEN [Races |-> <<>>]
             ELSE IF resource = "driverStandings"
                  THEN [StandingsLists |-> <<[DriverStandings |-> <<>>]>>]
                  ELSE [StandingsLists |-> <<[ConstructorStandings |-> <<>>]>>]

Envelope(resource, total, table) ==
    IF resource = "results"
    THEN [MRData |-> [total |-> total, RaceTable |-> table]]
    ELSE [MRData |-> [total |-> total, StandingsTable |-> table]]

EnvelopeNoTotal(resource, table) ==
    IF resource = "results"
    THEN [MRData |-> [RaceTable |-> table]]
    ELSE [MRData |-> [StandingsTable |-> table]]

\* the total of a page of one of the TotalKinds that carry one
TotalAs(kind, n) ==
    CASE kind = "BAD_TOTAL"      -> <<"x">>
      [] kind = "SPACED_TOTAL"   -> <<" ">> \o ToDigits(n) \o <<"\n">>
      [] kind = "SIGNED_TOTAL"   -> <<"+">> \o ToDigits(n)
      [] kind = "NUMBER_TOTAL"   -> Num(n)
      [] kind = "NEGATIVE_TOTAL" -> <<"-">> \o ToDigits(n)
      [] kind = "NULL_TOTAL"     -> Null

\* the HTTP answer to GET {season}/{resource}.json?limit={lim}&offset={offset}
Serve(src, resource, lim, offset) ==
    LET k     == offset \div lim + 1
        kind  == IF k = src.badAt THEN src.badKind ELSE "OK"
        items == PageItems(src, lim, offset)
        total == ToDigits(Len(src.items))
    IN  CASE kind = "OK" ->
                 [status |-> 200, json_ok |-> TRUE,
                  body |-> Envelope(resource, total, TableOf(resource, items))]
          [] kind = "HTTP_ERROR" ->
                 [status |-> 503, json_ok |-> TRUE, body |-> EmptyDict]
          [] kind = "NETWORK_ERROR" ->
                 [status |-> 0, json_ok |-> FALSE, body |-> EmptyDict]
          [] kind = "BAD_JSON" ->
                 [status |-> 200, json_ok |-> FALSE, body |-> EmptyDict]
          [] kind = "NO_MRDATA" ->
                 [status |-> 200, json_ok |-> TRUE, body |-> EmptyDict]
          [] kind = "NO_TABLE" ->
                 [status |-> 200, json_ok |-> TRUE, body |-> [MRData |-> [total |-> total]]]
          [] kind \in {"NO_LISTS", "EMPTY_LISTS", "NO_CHUNK", "EMPTY_CHUNK"} ->
                 [status |-> 200, json_ok |-> TRUE,
                  body |-> Envelope(resource, total, TableBroken(resource, kind))]
          [] kind = "NO_TOTAL" ->
                 [status |-> 200, json_ok |-> TRUE,
                  body |-> EnvelopeNoTotal(resource, TableOf(resource, items))]
          [] kind \in TotalKinds \ {"NO_TOTAL"} ->
                 [status |-> 200, json_ok |-> TRUE,
                  body |-> Envelope(resource, TotalAs(kind, Len(src.items)),
                                    TableOf(resource, items))]

-----------------------------------------------------------------------------
(* fetch_jolpica_json *)

\* requests.get, raise_for_status, resp.json(): the parsed body or an exception
fetch_jolpica_json(api, resource, season, lim, offset) ==
    LET resp == Serve(api[resource][season], resource, lim, offset)
    IN  IF resp.status = 0 THEN [raised |-> TRUE, data |-> EmptyDict]
        ELSE IF resp.status >= 400 THEN [raised |-> TRUE, data |-> EmptyDict]
        ELSE IF ~resp.json_ok THEN [raised |-> TRUE, data |-> EmptyDict]
        ELSE [raised |-> FALSE, data |-> resp.body]

\* mutant: the total read at the top level of the body, where it never is
TotalOf_top_level(data) ==
    IF "total" \in DOMAIN data THEN PyInt(data.total)
    ELSE [raised |-> FALSE, v |-> 0]

\* int(data.get("MRData", {}).get("total", 0))
TotalOf(data) ==
    LET mr == PyGet(data, "MRData", EmptyDict)
    IN  IF "total" \in DOMAIN mr THEN PyInt(mr.total)
        ELSE [raised |-> FALSE, v |-> 0]

Raise(requests) == [raised |-> TRUE, value |-> <<>>, requests |-> requests]

Return(value, requests) == [raised |-> FALSE, value |-> value, requests |-> requests]

-----------------------------------------------------------------------------
(* get_driver_standings, get_constructor_standings, get_all_season_results: *)
(* the undecorated bodies.  requests is the list of offsets requested.      *)

\* mutant: lists[0] read before lists is tested, IndexError on an empty list
RECURSIVE driver_standings_while_index_first(_, _, _, _, _)
driver_standings_while_index_first(api, season, all_standings, offset, requests) ==
    LET r    == fetch_jolpica_json(api, "driverStandings", season, limit, offset)
        reqs == Append(requests, offset)
    IN  IF r.raised THEN Raise(reqs)
        ELSE
        LET lists == PyGet(PyGet(PyGet(r.data, "MRData", EmptyDict),
                                 "StandingsTable", EmptyDict), "StandingsLists", <<>>)
        IN  IF Len(lists) = 0 THEN Raise(reqs)
            ELSE
            LET standings_chunk == PyGet(lists[1], "DriverStandings", <<>>)
            IN  IF Len(standings_chunk) = 0 THEN Return(all_standings, reqs)
                ELSE
                LET total == TotalOf(r.data)
                IN  IF total.raised THEN Raise(reqs)
                    ELSE IF offset + limit >= total.v
                         THEN Return(all_standings \o standings_chunk, reqs)
                         ELSE driver_standings_while_index_first(api, season,
                                  all_standings \o standings_chunk, offset + limit, reqs)

RECURSIVE driver_standings_while(_, _, _, _, _)
driver_standings_while(api, season, all_standings, offset, requests) ==
    LET r    == fetch_jolpica_json(api, "driverStandings", season, limit, offset)
        reqs == Append(requests, offset)
    IN  IF r.raised THEN Raise(reqs)
        ELSE
        LET lists == PyGet(PyGet(PyGet(r.data, "MRData", EmptyDict),
                                 "StandingsTable", EmptyDict), "StandingsLists", <<>>)
        IN  IF Len(lists) = 0 THEN Return(all_standings, reqs)
            ELSE
            LET standings_chunk == PyGet(lists[1], "DriverStandings", <<>>)
            IN  IF Len(standings_chunk) = 0 THEN Return(all_standings, reqs)
                ELSE
                LET total == TotalOf(r.data)
                IN  IF total.raised THEN Raise(reqs)
                    ELSE IF offset + limit >= total.v
                         THEN Return(all_standings \o standings_chunk, reqs)
                         ELSE driver_standings_while(api, season,
                                  all_standings \o standings_chunk, offset + limit, reqs)

get_driver_standings(api, season) == driver_standings_while(api, season, <<>>, 0, <<>>)

RECURSIVE constructor_standings_while(_, _, _, _, _)
constructor_standings_while(api, season, all_standings, offset, requests) ==
    LET r    == fetch_jolpica_json(api, "constructorStandings", season, limit, offset)
        reqs == Append(requests, offset)
    IN  IF r.raised THEN Raise(reqs)
        ELSE
        LET lists == PyGet(PyGet(PyGet(r.data, "MRData", EmptyDict),
                                 "StandingsTable", EmptyDict), "StandingsLists", <<>>)
        IN  IF Len(lists) = 0 THEN Return(all_standings, reqs)
            ELSE
            LET standings_chunk == PyGet(lists[1], "ConstructorStandings", <<>>)
            IN  IF Len(standings_chunk) = 0 THEN Return(all_standings, reqs)
                ELSE
                LET total == TotalOf(r.data)
                IN  IF total.raised THEN Raise(reqs)
                    ELSE IF offset + limit >= total.v
                         THEN Return(all_standings \o standings_chunk, reqs)
                         ELSE constructor_standings_while(api, season,
                                  all_standings \o standings_chunk, offset + limit, reqs)

get_constructor_standings(api, season) ==
    constructor_standings_while(api, season, <<>>, 0, <<>>)

RECURSIVE all_season_results_while(_, _, _, _, _)
all_season_results_while(api, season, all_races, offset, requests) ==
    LET r    == fetch_jolpica_json(api, "results", season, limit, offset)
        reqs == Append(requests, offset)
    IN  IF r.raised THEN Raise(reqs)
        ELSE
        LET race_chunk == PyGet(PyGet(PyGet(r.data, "MRData", EmptyDict),
                                      "RaceTable", EmptyDict), "Races", <<>>)
        IN  IF Len(race_chunk) = 0 THEN Return(all_races, reqs)
            ELSE
            LET total == TotalOf(r.data)
            IN  IF total.raised THEN Raise(reqs)
                ELSE IF offset + limit >= total.v
                     THEN Return(all_races \o race_chunk, reqs)
                     ELSE all_season_results_while(api, season,
                              all_races \o race_chunk, offset + limit, reqs)

get_all_season_results(api, season) == all_season_results_while(api, season, <<>>, 0, <<>>)


-----------------------------------------------------------------------------
(* get_pilot_stats: the loop body *)

\* mutant: only the family name makes the key
stats_driver_family_only(res) ==
    LET driver_data == PyGet(res, "Driver", EmptyDict)
    IN  IF IsNullObject(driver_data) THEN [raised |-> TRUE, v |-> <<>>]
        ELSE [raised |-> FALSE,
              v |-> PyStrip(PyStr(PyGet(driver_data, "familyName", <<>>)))]

\* the driver key; Driver: null has no .get (AttributeError)
stats_driver(res) ==
    LET driver_data == PyGet(res, "Driver", EmptyDict)
    IN  IF IsNullObject(driver_data) THEN [raised |-> TRUE, v |-> <<>>]
        ELSE [raised |-> FALSE,
              v |-> PyStrip(PyStr(PyGet(driver_data, "givenName", <<>>)) \o <<" ">>
                            \o PyStr(PyGet(driver_data, "familyName", <<>>)))]

\* pos after the if/else: an int, or None (some = FALSE); int() raises
\* ValueError on a digit that is not decimal
position_of(res) ==
    LET pos == PyGet(res, "position", Null)
    IN  IF PyTruthy(pos) /\ IsDigitStr(PyStr(pos))
        THEN [raised |-> PyInt(pos).raised, some |-> TRUE, v |-> PyInt(pos).v]
        ELSE [raised |-> FALSE, some |-> FALSE, v |-> 0]

\* pos == 1
is_win(pos) == pos.some /\ pos.v = 1

\* mutant: pos < 3
is_podium_below_three(pos) == (pos.some /\ pos.v # 0) /\ pos.v < 3

\* pos and pos <= 3: None and 0 are false
is_podium(pos) == (pos.some /\ pos.v # 0) /\ pos.v <= 3

RetirementWords ==
    <<<<"R", "e", "t", "i", "r", "e", "d">>, <<"A", "c", "c", "i", "d", "e", "n", "t">>, <<"D", "N", "F">>, <<"C", "o", "l", "l", "i", "s", "i", "o", "n">>, <<"E", "n", "g", "i", "n", "e">>, <<"G", "e", "a", "r", "b", "o", "x">>>>

\* mutant: the list of words one short
retirement_test_short_list(res) ==
    LET status        == PyGet(res, "status", <<>>)
        position_text == PyGet(res, "positionText", <<>>)
    IN  IF position_text = <<"R">> THEN [raised |-> FALSE, v |-> TRUE]
        ELSE IF ~IsStr(status) THEN [raised |-> TRUE, v |-> FALSE]
        ELSE [raised |-> FALSE,
              v |-> \E i \in 1..(Len(RetirementWords) - 1) : Contains(status, RetirementWords[i])]

\* position_text == "R" or any(s in status for s in [...]); s in None and
\* s in 5 are TypeErrors
retirement_test(res) ==
    LET status        == PyGet(res, "status", <<>>)
        position_text == PyGet(res, "positionText", <<>>)
    IN  IF position_text = <<"R">> THEN [raised |-> FALSE, v |-> TRUE]
        ELSE IF ~IsStr(status) THEN [raised |-> TRUE, v |-> FALSE]
        ELSE [raised |-> FALSE,
              v |-> \E i \in 1..Len(RetirementWords) : Contains(status, RetirementWords[i])]

ZeroStats == [wins |-> 0, podiums |-> 0, retirements |-> 0]

Bump(b) == IF b THEN 1 ELSE 0

\* one pass of the inner for: st is [raised, stats]
stats_row(st, res) ==
    IF st.raised THEN st
    ELSE
    LET driver == stats_driver(res)
    IN  IF driver.raised THEN [raised |-> TRUE, stats |-> st.stats]
        ELSE IF Len(driver.v) = 0 THEN st
        ELSE
        LET pos    == position_of(res)
            retire == retirement_test(res)
            old    == DictGet(st.stats, driver.v, ZeroStats)
            new    == [wins        |-> old.wins + Bump(is_win(pos)),
                       podiums     |-> old.podiums + Bump(is_podium(pos)),
                       retirements |-> old.retirements + Bump(retire.v)]
        IN  IF pos.raised \/ retire.raised THEN [raised |-> TRUE, stats |-> st.stats]
            ELSE [raised |-> FALSE, stats |-> DictSet(st.stats, driver.v, new)]

\* for res in results: the pass for row i, then the rows after it
RECURSIVE stats_rows(_, _, _)
stats_rows(st, results, i) ==
    IF i > Len(results) THEN st
    ELSE The({stats_rows(next, results, i + 1) : next \in {stats_row(st, results[i])}})

\* for race in races
RECURSIVE stats_races(_, _, _)
stats_races(st, races, i) ==
    IF i > Len(races) THEN st
    ELSE The({stats_races(next, races, i + 1) :
              next \in {stats_rows(st, PyGet(races[i], "Results", <<>>), 1)}})

\* the body of get_pilot_stats after races = get_all_season_results(season)
pilot_stats_body(races) ==
    LET st == stats_races([raised |-> FALSE, stats |-> <<>>], races, 1)
    IN  [raised |-> st.raised, value |-> IF st.raised THEN <<>> ELSE st.stats]

-----------------------------------------------------------------------------
(* get_points_progression: the loop body *)

progression_driver(res) ==
    LET driver_data == PyGet(res, "Driver", EmptyDict)
    IN  IF IsNullObject(driver_data) THEN [raised |-> TRUE, v |-> <<>>]
        ELSE [raised |-> FALSE,
              v |-> PyStrip(PyStr(PyGet(driver_data, "givenName", <<>>)) \o <<" ">>
                            \o PyStr(PyGet(driver_data, "familyName", <<>>)))]

\* f"{round_number} - {race.get('raceName', 'Unknown')}"
race_label(race) ==
    PyStr(PyGet(race, "round", Null)) \o <<" ", "-", " ">> \o PyStr(PyGet(race, "raceName", <<"U", "n", "k", "n", "o", "w", "n">>))

\* float(res.get("points", 0))
points_of(res) == PyFloatOfStr(PyGet(res, "points", Num(0)))

\* points_progression[race_name] = {}: st is [raised, cumulative_points, points_progression]
progression_race(st, race) ==
    IF st.raised THEN st
    ELSE [st EXCEPT !.points_progression = DictSet(@, race_label(race), <<>>)]

\* one pass of the inner for
progression_row(st, race, res) ==
    IF st.raised THEN st
    ELSE
    LET driver == progression_driver(res)
    IN  IF driver.raised THEN [st EXCEPT !.raised = TRUE]
        ELSE IF Len(driver.v) = 0 THEN st
        ELSE
        The({IF points.raised THEN [st EXCEPT !.raised = TRUE]
             ELSE The({[raised |-> FALSE,
                        cumulative_points |-> DictSet(st.cumulative_points, driver.v, total),
                        points_progression |->
                            DictSet(st.points_progression, race_label(race),
                                    DictSet(DictGet(st.points_progression, race_label(race),
                                                    <<>>),
                                            driver.v, total))] :
                       total \in {FloatAdd(DictGet(st.cumulative_points, driver.v, Float(0)),
                                           points.v)}}) :
             points \in {points_of(res)}})

\* for res in results: the pass for row i, then the rows after it
RECURSIVE progression_rows(_, _, _, _)
progression_rows(st, race, results, i) ==
    IF i > Len(results) THEN st
    ELSE The({progression_rows(next, race, results, i + 1) :
              next \in {progression_row(st, race, results[i])}})

\* for race in races
RECURSIVE progression_races(_, _, _)
progression_races(st, races, i) ==
    IF i > Len(races) THEN st
    ELSE The({progression_races(next, races, i + 1) :
              next \in {progression_rows(progression_race(st, races[i]), races[i],
                                         PyGet(races[i], "Results", <<>>), 1)}})

\* the body of get_points_progression after races = get_all_season_results(season)
points_progression_body(races) ==
    LET st == progression_races([raised |-> FALSE, cumulative_points |-> <<>>,
                                 points_progression |-> <<>>], races, 1)
    IN  [raised |-> st.raised, value |-> IF st.raised THEN <<>> ELSE st.points_progression]

-----------------------------------------------------------------------------
(* functools.lru_cache(maxsize=10): one cache per decorated function, a      *)
(* tuple of [k, v] with the least recently used entry first.                 *)

lru_has(c, key) == DictHas(c, key)

\* mutant: one slot for all arguments, the value stored last
lru_value_last_stored(c, key) == c[Len(c)].v

lru_value(c, key) == DictGet(c, key, <<>>)

\* a hit makes the entry the most recently used
lru_touch(c, key) ==
    LET i == DictIndex(c, key)
    IN  SubSeq(c, 1, i - 1) \o SubSeq(c, i + 1, Len(c)) \o <<c[i]>>

\* after a miss the result is stored, and the least recently used entry dropped
\* when the cache is full; nothing is done when the key was stored while the
\* function ran
lru_store(c, key, value) ==
    IF lru_has(c, key) THEN c
    ELSE IF Len(c) >= maxsize THEN Append(Tail(c), [k |-> key, v |-> value])
    ELSE Append(c, [k |-> key, v |-> value])

PagedOps == {"get_driver_standings", "get_constructor_standings", "get_all_season_results"}

Folds == {"get_points_progression", "get_pilot_stats"}

CachedOps == PagedOps \cup Folds

\* the undecorated function g
Body(g, api, season) ==
    CASE g = "get_driver_standings" -> get_driver_standings(api, season)
      [] g = "get_constructor_standings" -> get_constructor_standings(api, season)
      [] g = "get_all_season_results" -> get_all_season_results(api, season)

\* what a fold does with races = get_all_season_results(season)
FoldOf(f, races) ==
    CASE f = "get_points_progression" -> points_progression_body(races)
      [] f = "get_pilot_stats" -> pilot_stats_body(races)

-----------------------------------------------------------------------------
(* The callers: a route handler calls the decorated function for its season  *)
(* and answers 200 with the value or 500 with the error message.             *)

\* the calls that can be in flight together
MaxCalls == 2

Resources == {"driverStandings", "constructorStandings", "results"}

Idle == [op |-> "none"]

NoRet == [raised |-> FALSE, value |-> <<>>, requests |-> <<>>, status |-> 0]

Source(items, cap, badAt, badKind) ==
    [items |-> items, cap |-> cap, badAt |-> badAt, badKind |-> badKind]

\* every resource of season 1 answers from the same source
ApiOf(src) == [r \in Resources |-> [s \in {1} |-> src]]

\* json.dumps(allow_nan=False) of the value: nan and inf are ValueErrors
JsonCompliant(f, value) ==
    f = "get_points_progression" =>
        \A i \in 1..Len(value) : \A j \in 1..Len(value[i].v) : value[i].v[j].v.kind = "finite"

\* the operations a route handler calls
Routed == CachedOps \ {"get_all_season_results"}

\* a call of f as it starts.  After a miss a fold is about to call
\* get_all_season_results ("races"), a paged function to run its requests ("fetch")
Started(f, season, retry) ==
    [op |-> f, season |-> season, at |-> IF f \in Folds THEN "races" ELSE "fetch",
     inner |-> "none", failed |-> FALSE, stores |-> {}, requests |-> <<>>, races |-> <<>>,
     retry |-> retry]

\* a thread is free to take a call
Room == BagCardinality(flight) < MaxCalls

\* no call returns in this step
NoReturn ==
    /\ call' = Idle
    /\ ret' = NoRet

\* the call c returns to its handler, which renders what it got: 200, or 500
\* when the call or the rendering raised (status 0: the function has no route)
Returns(c, hit, raised, value) ==
    /\ call' = [op |-> c.op, season |-> c.season, hit |-> hit, inner |-> c.inner,
                failed |-> c.failed, stores |-> c.stores, retry |-> c.retry,
                input |-> upstream]
    /\ ret' = [raised |-> raised, value |-> value, requests |-> c.requests,
               status |-> IF c.op \notin Routed THEN 0
                          ELSE IF raised \/ ~JsonCompliant(c.op, value) THEN 500
                          ELSE 200]

\* f(season) is called: the lookup in the cache of f.  A hit returns the
\* stored value; after a miss the wrapped function runs.  retry says whether
\* the call repeats one that raised
Begin(f, season, retry) ==
    /\ UNCHANGED upstream
    /\ IF lru_has(cache[f], season)
       THEN /\ cache' = [cache EXCEPT ![f] = lru_touch(@, season)]
            /\ UNCHANGED flight
            /\ Returns(Started(f, season, retry), TRUE, FALSE, lru_value(cache[f], season))
       ELSE /\ flight' = flight (+) SetToBag({Started(f, season, retry)})
            /\ UNCHANGED cache
            /\ NoReturn

\* races = get_all_season_results(season) in a fold: the lookup in the cache
\* of get_all_season_results
LookupRaces ==
    \E c \in BagToSet(flight) :
        /\ c.at = "races"
        /\ IF lru_has(cache["get_all_season_results"], c.season)
           THEN /\ cache' = [cache EXCEPT !["get_all_season_results"] =
                                              lru_touch(@, c.season)]
                /\ flight' = (flight (-) SetToBag({c}))
                              (+) SetToBag({[c EXCEPT
                                      !.at = "fold", !.inner = "hit",
                                      !.races = lru_value(cache["get_all_season_results"],
                                                          c.season)]})
           ELSE /\ UNCHANGED cache
                /\ flight' = (flight (-) SetToBag({c}))
                              (+) SetToBag({[c EXCEPT !.at = "fetch", !.inner = "miss"]})
        /\ NoReturn
        /\ UNCHANGED <<swept, upstream>>

\* the requests of the paged function c runs, against the upstream api, and the
\* store of what they gave; an exception leaves the call
Fetch(c, api) ==
    /\ c.at = "fetch"
    /\ UNCHANGED <<swept, upstream>>
    /\ \E g \in {IF c.op \in Folds THEN "get_all_season_results" ELSE c.op} :
       \E r \in {Body(g, api, c.season)} :
       \E d \in {[c EXCEPT !.requests = r.requests, !.failed = r.raised,
                           !.stores = IF r.raised \/ lru_has(cache[g], c.season) THEN {}
                                      ELSE {g}]} :
          IF r.raised
          THEN /\ UNCHANGED cache
               /\ flight' = flight (-) SetToBag({c})
               /\ Returns(d, FALSE, TRUE, <<>>)
          ELSE /\ cache' = [cache EXCEPT ![g] = lru_store(@, c.season, r.value)]
               /\ IF c.op \in Folds
                  THEN /\ flight' = (flight (-) SetToBag({c}))
                                     (+) SetToBag({[d EXCEPT !.at = "fold",
                                                             !.races = r.value]})
                       /\ NoReturn
                  ELSE /\ flight' = flight (-) SetToBag({c})
                       /\ Returns(d, FALSE, FALSE, r.value)

\* the fold of the races, and the store of the table it built; an exception
\* leaves the call
FoldRaces ==
    \E c \in BagToSet(flight) :
        /\ c.at = "fold"
        /\ UNCHANGED <<swept, upstream>>
        /\ flight' = flight (-) SetToBag({c})
        /\ \E r \in {FoldOf(c.op, c.races)} :
              IF r.raised
              THEN /\ UNCHANGED cache
                   /\ Returns(c, FALSE, TRUE, <<>>)
              ELSE /\ cache' = [cache EXCEPT ![c.op] = lru_store(@, c.season, r.value)]
                   /\ Returns([c EXCEPT !.stores = IF lru_has(cache[c.op], c.season)
                                                   THEN @ ELSE @ \cup {c.op}],
                              FALSE, FALSE, r.value)

InitIdle ==
    /\ call = Idle
    /\ ret = NoRet
    /\ cache = [f \in CachedOps |-> <<>>]
    /\ swept = [n |-> 0, op |-> "none", extra |-> 0]
    /\ flight = EmptyBag
-----------------------------------------------------------------------------
(* SpecPaging: clients of one of the three paged operations, season 1,      *)
(* against a synthetic source.                                              *)

\* a synthetic source holds up to MaxPages full pages and one more item
MaxPages == 2

\* what the source holds: n items, a count around the page boundaries; the
\* page size cap it serves at most; the request it answers as badKind
SourceParams ==
    {p \in [kind : {"source"},
            n : {n \in 0..(MaxPages * limit + 1) : (n % limit) \in {0, 1, limit - 1}},
            cap : {1, limit - 1, limit, limit + 1},
            badAt : 0..(MaxPages + 1),
            badKind : BadKinds \cup {"OK"}] :
        (p.badAt = 0) <=> (p.badKind = "OK")}

SourceOf(p) == Source([i \in 1..p.n |-> i], p.cap, p.badAt, p.badKind)

InitPaging == InitIdle /\ upstream \in SourceParams

\* the requests of a call in flight
PagedFetch == \E c \in BagToSet(flight) : Fetch(c, ApiOf(SourceOf(upstream)))

\* a call of the decorated paged operation f for season 1
PagedCall(f) ==
    /\ Room
    /\ swept.op \in {"none", f}
    /\ swept' = [swept EXCEPT !.op = f]
    /\ Begin(f, 1, "no")

CallDriverStandings == PagedCall("get_driver_standings")

CallConstructorStandings == PagedCall("get_constructor_standings")

CallAllSeasonResults == PagedCall("get_all_season_results")

NextPaging ==
    \/ CallDriverStandings
    \/ CallConstructorStandings
    \/ CallAllSeasonResults
    \/ PagedFetch

SpecPaging == InitPaging /\ [][NextPaging]_vars

-----------------------------------------------------------------------------
(* Result rows of the upstream API *)

\* a field the row does not have
Absent == <<"absent">>

Opt(key, value) == IF value = Absent THEN <<>> ELSE key :> value

\* the Driver object of a row, by name of the case
DriverObject(who) ==
    CASE who = "A X"       -> [givenName |-> <<"A">>, familyName |-> <<"X">>]
      [] who = "B"         -> [givenName |-> <<"B">>]
      [] who = "blank"     -> [givenName |-> <<>>, familyName |-> <<>>]
      [] who = "no name"   -> EmptyDict
      [] who = "null name" -> [givenName |-> Null, familyName |-> <<"X">>]
      [] who = "null"      -> NullObject

\* the cases other than "A X"; "no driver" is a row without the Driver key
OtherDrivers == {"B", "blank", "no name", "null name", "null", "no driver"}

ResultRow(who, position, position_text, status, points) ==
    (IF who = "no driver" THEN <<>> ELSE "Driver" :> DriverObject(who))
    @@ Opt("position", position) @@ Opt("positionText", position_text)
    @@ Opt("status", status) @@ Opt("points", points)

PositionValues ==
    {Absent, Null, <<>>, <<"0">>, <<"1">>, <<"2">>, <<"3">>, <<"4">>, <<"0", "1">>, <<"1", "2">>, <<"R">>, <<"1", "a">>,
     <<"-", "1">>, <<" ", "1">>, Num(0), Num(1), Num(3), <<"U+00B2">>, <<"1", "U+00B2">>, <<"U+FF11">>,
     <<"U+0663">>}

PositionTexts == {Absent, Null, <<"R">>, <<"r">>, <<"2", "0">>}

StatusValues ==
    {Absent, Null, Num(5), <<>>, <<"F", "i", "n", "i", "s", "h", "e", "d">>, <<"+", "1", " ", "L", "a", "p">>, <<"R", "e", "t", "i", "r", "e", "d">>, <<"r", "e", "t", "i", "r", "e", "d">>,
     <<"A", "c", "c", "i", "d", "e", "n", "t">>, <<"D", "N", "F">>, <<"C", "o", "l", "l", "i", "s", "i", "o", "n", " ", "d", "a", "m", "a", "g", "e">>, <<"E", "n", "g", "i", "n", "e">>, <<"E", "N", "G", "I", "N", "E">>, <<"G", "e", "a", "r", "b", "o", "x">>}

-----------------------------------------------------------------------------
(* SpecStats: GET /stats/pilots for season 1, whose results the upstream    *)
(* serves in one page: a race without results, then a race with the rows.   *)

MaxStatsRows == 2

\* rows that vary the position, rows that vary status and positionText, rows
\* of the other Driver objects
StatsRows ==
    {r \in [who : {"A X"} \cup OtherDrivers, position : PositionValues,
            position_text : PositionTexts, status : StatusValues] :
        \/ r.who = "A X" /\ r.position_text = Absent /\ r.status = Absent
        \/ r.who = "A X" /\ r.position = <<"1">> /\ r.position_text \in {Absent, <<"R">>}
        \/ /\ r.who = "A X" /\ r.position = <<"1">>
           /\ r.status \in {Absent, Null, <<"F", "i", "n", "i", "s", "h", "e", "d">>, <<"R", "e", "t", "i", "r", "e", "d">>}
        \/ /\ r.who = "A X" /\ r.position \in {Absent, <<"4">>}
           /\ <<r.position_text, r.status>>
                  \in {<<<<"R">>, <<"F", "i", "n", "i", "s", "h", "e", "d">>>>, <<<<"2", "0">>, <<"C", "o", "l", "l", "i", "s", "i", "o", "n", " ", "d", "a", "m", "a", "g", "e">>>>,
                       <<<<"2", "0">>, <<"F", "i", "n", "i", "s", "h", "e", "d">>>>}
        \/ /\ r.who \in OtherDrivers /\ r.position = <<"1">>
           /\ <<r.position_text, r.status>> \in {<<<<"R">>, Absent>>, <<Absent, Null>>}}

\* the rows that follow the first one of a race
FollowingRows ==
    {r \in StatsRows :
        \/ /\ r.who = "A X" /\ r.position_text = Absent /\ r.status = Absent
           /\ r.position \in {<<"0">>, <<"1">>, <<"3">>, <<"4">>, <<"U+00B2">>}
        \/ r.who = "A X" /\ r.position = <<"4">> /\ r.status = <<"C", "o", "l", "l", "i", "s", "i", "o", "n", " ", "d", "a", "m", "a", "g", "e">>
        \/ r.who = "A X" /\ r.position_text = <<"R">> /\ r.status = Absent
        \/ r.who \in {"B", "blank", "null"} /\ r.position_text = <<"R">>}

\* no row, or a row of StatsRows and up to MaxStatsRows - 1 following rows
StatsInputs ==
    {[kind |-> "rows", rows |-> rows] :
     rows \in {<<>>} \cup
              {<<r>> \o more : r \in StatsRows,
               more \in UNION {[1..n -> FollowingRows] : n \in 0..(MaxStatsRows - 1)}}}

StatsSeason(rows) ==
    <<[round |-> <<"1">>, raceName |-> <<"R">>],
      [round |-> <<"2">>, raceName |-> <<"S">>,
       Results |-> [i \in 1..Len(rows) |->
                       ResultRow(rows[i].who, rows[i].position, rows[i].position_text,
                                 rows[i].status, Absent)]]>>

\* the upstream of a request: the season, reachable or answering 503
ApiOfSeason(races, fails) ==
    ApiOf(Source(races, limit, IF fails THEN 1 ELSE 0, IF fails THEN "HTTP_ERROR" ELSE "OK"))

InitStats == InitIdle /\ upstream \in StatsInputs

\* the requests of a call in flight, which may meet an HTTP error
StatsFetch ==
    \E c \in BagToSet(flight), fails \in BOOLEAN :
        Fetch(c, ApiOfSeason(StatsSeason(upstream.rows), fails))

\* GET /stats/pilots?season=1, while fewer than MaxCalls calls are in flight
CallPilotStats ==
    /\ Room
    /\ UNCHANGED swept
    /\ Begin("get_pilot_stats", 1, "no")

NextStats == CallPilotStats \/ LookupRaces \/ StatsFetch \/ FoldRaces

SpecStats == InitStats /\ [][NextStats]_vars

-----------------------------------------------------------------------------
(* SpecPoints: GET /races/points for season 1, whose race objects the       *)
(* upstream serves in one page.  Two race objects may carry the same round  *)
(* and raceName, as the two halves of a race split across upstream pages.   *)

MaxRaces == 2

\* the race object without its results, by name of the case
RaceObject(which) ==
    CASE which = "1 R"     -> [round |-> <<"1">>, raceName |-> <<"R">>]
      [] which = "2 S"     -> [round |-> <<"2">>, raceName |-> <<"S">>]
      [] which = "bare"    -> [season |-> <<"1">>]
      [] which = "round 1" -> [round |-> Num(1), raceName |-> <<"R">>]

PointsValues ==
    {Absent, Null, Num(3), <<>>, <<"2">>, <<"x">>, <<"1", "2", ".", "5">>, <<"0", ".", "5">>, <<"-", "1">>, <<" ", "2">>, <<"1", "e", "1">>,
     <<"n", "a", "n">>, <<"U+0662">>, <<"0", ".", "1">>, <<"0", ".", "2">>, <<"0", ".", "7">>}

\* the rows of a race object: none, one, or one of four pairs
PointRows ==
    {rows \in UNION {[1..n -> [who : {"A X", "B", "blank", "null"}, points : PointsValues]] :
                     n \in 0..1} :
        \A i \in 1..Len(rows) :
            \/ rows[i].who = "A X"
            \/ rows[i].who = "B" /\ rows[i].points \in {Absent, <<"2">>}
            \/ rows[i].who = "blank" /\ rows[i].points \in {<<"2">>, <<"x">>}
            \/ rows[i].who = "null" /\ rows[i].points = <<"2">>}
    \cup {<<[who |-> "A X", points |-> <<"2">>], [who |-> "A X", points |-> Absent]>>,
          <<[who |-> "A X", points |-> <<"1", "2", ".", "5">>], [who |-> "A X", points |-> <<"0", ".", "5">>]>>,
          <<[who |-> "A X", points |-> <<"0", ".", "2">>], [who |-> "A X", points |-> <<"0", ".", "7">>]>>,
          <<[who |-> "A X", points |-> <<"2">>], [who |-> "B", points |-> <<"2">>]>>,
          <<[who |-> "B", points |-> <<"2">>], [who |-> "A X", points |-> <<"2">>]>>}

Races ==
    {r \in [which : {"1 R", "2 S", "bare", "round 1"}, rows : PointRows] :
        r.which \in {"bare", "round 1"}
            => r.rows \in {<<>>, <<[who |-> "A X", points |-> <<"2">>]>>}}

\* the race objects that follow the first one
FollowingRaces ==
    {r \in Races :
        \/ r.rows \in {<<>>, <<[who |-> "A X", points |-> <<"2">>]>>,
                       <<[who |-> "A X", points |-> <<"x">>]>>,
                       <<[who |-> "A X", points |-> <<"0", ".", "2">>]>>}
        \/ r.which = "1 R" /\ r.rows = <<[who |-> "B", points |-> <<"2">>]>>
        \/ r.which = "2 S" /\ Len(r.rows) = 2}

\* no race, or a race of Races and up to MaxRaces - 1 following races
PointsInputs ==
    {[kind |-> "races", races |-> races] :
     races \in {<<>>} \cup
               {<<r>> \o more : r \in Races,
                more \in UNION {[1..n -> FollowingRaces] : n \in 0..(MaxRaces - 1)}}}

PointsSeason(races) ==
    [i \in 1..Len(races) |->
        RaceObject(races[i].which)
        @@ [Results |-> [j \in 1..Len(races[i].rows) |->
                            ResultRow(races[i].rows[j].who, Absent, Absent, Absent,
                                      races[i].rows[j].points)]]]

InitPoints == InitIdle /\ upstream \in PointsInputs

\* the requests of a call in flight, which may meet an HTTP error
PointsFetch ==
    \E c \in BagToSet(flight), fails \in BOOLEAN :
        Fetch(c, ApiOfSeason(PointsSeason(upstream.races), fails))

\* GET /races/points?season=1, while fewer than MaxCalls calls are in flight
CallPointsProgression ==
    /\ Room
    /\ UNCHANGED swept
    /\ Begin("get_points_progression", 1, "no")

NextPoints == CallPointsProgression \/ LookupRaces \/ PointsFetch \/ FoldRaces

SpecPoints == InitPoints /\ [][NextPoints]_vars

-----------------------------------------------------------------------------
(* SpecKeys: GET /races/points and GET /stats/pilots for season 1, whose   *)
(* rows differ in the Driver object only.                                   *)

MaxKeyRows == 2

GivenValues == {Absent, Null, <<>>, <<" ">>, <<"A">>, <<" ", "A">>, <<"\r", "A">>, <<"U+00A0">>}

FamilyValues == {Absent, <<>>, <<"X">>, <<"X", "\t">>, <<"\n">>, <<"X", "\r">>, <<"X", "U+001C">>}

\* the Driver objects: has = FALSE is a row without one
DriverNames ==
    {n \in [has : BOOLEAN, given : GivenValues, family : FamilyValues] :
        ~n.has => (n.given = Absent /\ n.family = Absent)}

\* a winner who retired with two points
NamedRow(n) ==
    (IF n.has THEN "Driver" :> (Opt("givenName", n.given) @@ Opt("familyName", n.family))
     ELSE <<>>)
    @@ [position |-> <<"1">>, positionText |-> <<"1">>, status |-> <<"R", "e", "t", "i", "r", "e", "d">>, points |-> <<"2">>]

\* the Driver objects of the rows that follow the first one
FollowingNames ==
    {n \in DriverNames :
        \/ ~n.has
        \/ n.given = <<"\r", "A">> /\ n.family = <<"X", "U+001C">>}

\* no row, or a row of DriverNames and up to MaxKeyRows - 1 following rows
KeysInputs ==
    {[kind |-> "names", names |-> names] :
     names \in {<<>>} \cup
               {<<n>> \o more : n \in DriverNames,
                more \in UNION {[1..len -> FollowingNames] : len \in 0..(MaxKeyRows - 1)}}}

SeasonOf(names) ==
    <<[round |-> <<"1">>, raceName |-> <<"R">>,
       Results |-> [i \in 1..Len(names) |-> NamedRow(names[i])]]>>

InitKeys == InitIdle /\ upstream \in KeysInputs

\* the requests of a call in flight
KeysFetch ==
    \E c \in BagToSet(flight) : Fetch(c, ApiOfSeason(SeasonOf(upstream.names), FALSE))

\* GET /races/points?season=1, while fewer than MaxCalls calls are in flight
KeysProgression ==
    /\ Room
    /\ UNCHANGED swept
    /\ Begin("get_points_progression", 1, "no")

\* GET /stats/pilots?season=1, while fewer than MaxCalls calls are in flight
KeysStats ==
    /\ Room
    /\ UNCHANGED swept
    /\ Begin("get_pilot_stats", 1, "no")

NextKeys == KeysProgression \/ KeysStats \/ LookupRaces \/ KeysFetch \/ FoldRaces

SpecKeys == InitKeys /\ [][NextKeys]_vars

-----------------------------------------------------------------------------
(* SpecCache: calls of the decorated functions against an upstream whose     *)
(* data does not change and whose requests may fail.  The clients sweep the  *)
(* seasons 1, 2, ... with one operation, and call any operation for a        *)
(* season of RevisitSeasons asked for before.  A call for a season asked     *)
(* for before is an extra call, and a call begun while another is in         *)
(* flight is one more: a behaviour has MaxExtra of them at most.             *)

MaxSeason == 11

MaxExtra == 2

\* the seasons whose result rows carry points that float() rejects
BadSeasons == {1}

\* the seasons asked for again, and whose requests may fail
RevisitSeasons == {1}

\* 1 when the call to begin overlaps a call in flight
Overlaps == IF flight = EmptyBag THEN 0 ELSE 1

\* what the upstream holds for a season: less than a page of each resource
WorldItems(resource, season) ==
    CASE resource = "driverStandings" ->
             <<[position |-> <<"1">>, points |-> ToDigits(season)]>>
      [] resource = "constructorStandings" ->
             <<[position |-> <<"1">>, wins |-> ToDigits(season)]>>
      [] resource = "results" ->
             <<[round |-> <<"1">>, raceName |-> <<"R">>,
                Results |-> <<[Driver |-> [givenName |-> ToDigits(season),
                                           familyName |-> <<"X">>],
                               position |-> <<"1">>, positionText |-> <<"1">>,
                               status |-> <<"F", "i", "n", "i", "s", "h", "e", "d">>,
                               points |-> IF season \in BadSeasons THEN <<"x">>
                                          ELSE ToDigits(season)]>>]>>

\* the upstream; fails = TRUE: the requests of this call meet an HTTP error
World(fails) ==
    [r \in Resources |->
        [s \in 1..MaxSeason |->
            Source(WorldItems(r, s), limit, IF fails THEN 1 ELSE 0,
                   IF fails THEN "HTTP_ERROR" ELSE "OK")]]

InitCache == InitIdle /\ upstream = [kind |-> "world"]

\* the last call to return was this one and raised: "failed" when a request
\* of it failed, "raised" when its fold raised on a row
AfterFailure(f, season) ==
    IF ~(call.op = f /\ call.season = season /\ ret.raised) THEN "no"
    ELSE IF call.failed THEN "failed" ELSE "raised"

\* the requests of a call in flight; those for a season of RevisitSeasons may
\* meet an HTTP error
CacheFetch ==
    \E c \in BagToSet(flight) :
        \E fails \in (IF c.season \in RevisitSeasons THEN BOOLEAN ELSE {FALSE}) :
            Fetch(c, World(fails))

\* the next season of the sweep, with the operation of the sweep
CacheSweep ==
    /\ Room
    /\ swept.n < MaxSeason
    /\ swept.extra + Overlaps <= MaxExtra
    /\ \E f \in CachedOps :
          /\ swept.op \in {"none", f}
          /\ swept' = [n |-> swept.n + 1, op |-> f, extra |-> swept.extra + Overlaps]
          /\ Begin(f, swept.n + 1, "no")

\* a season asked for before, with any of the operations
CacheRevisit ==
    /\ Room
    /\ swept.extra + Overlaps + 1 <= MaxExtra
    /\ swept' = [swept EXCEPT !.extra = @ + Overlaps + 1]
    /\ \E f \in CachedOps, season \in RevisitSeasons :
          /\ season <= swept.n
          /\ Begin(f, season, AfterFailure(f, season))

NextCache == CacheSweep \/ CacheRevisit \/ LookupRaces \/ CacheFetch \/ FoldRaces

SpecCache == InitCache /\ [][NextCache]_vars

-----------------------------------------------------------------------------
(* Claims about paged retrieval, checked under SpecPaging *)

CeilDiv(a, b) == (a + b - 1) \div b

Iota(a, b) == [i \in 1..(b - a + 1) |-> a + i - 1]

\* the offsets 0, limit, 2*limit, ... of k requests
Offsets(k) == [i \in 1..k |-> (i - 1) * limit]

\* a call of a paged operation that went to the upstream has returned
PagedAsked == call.op \in PagedOps /\ ~call.hit

\* the page size the source serves to a request for limit items
PageSize == Min(limit, call.input.cap)

WellBehaved == PagedAsked /\ call.input.badAt = 0

\* the request the source answers badly was issued
BadIssued ==
    /\ PagedAsked
    /\ call.input.badAt > 0
    /\ \E i \in 1..Len(ret.requests) : ret.requests[i] = (call.input.badAt - 1) * limit

\* what the pages before the bad one held
RECURSIVE EarlierItems(_, _, _)
EarlierItems(n, size, pages) ==
    IF pages = 0 THEN <<>>
    ELSE EarlierItems(n, size, pages - 1)
         \o (IF Min((pages - 1) * limit + size, n) < (pages - 1) * limit + 1 THEN <<>>
             ELSE Iota((pages - 1) * limit + 1, Min((pages - 1) * limit + size, n)))

\* C1 as stated: against a well-behaved source of N items in pages of size P,
\* the retrieval returns the N items in order with exactly ceil(N/P) requests,
\* for all N >= 0 and P >= 1
C1_AsStated ==
    WellBehaved =>
        /\ ~ret.raised
        /\ ret.value = Iota(1, call.input.n)
        /\ Len(ret.requests) = CeilDiv(call.input.n, PageSize)

\* C1 amended: a retrieval that is not answered from the cache, against a
\* source that serves the full pages of limit = 100 items the code asks for,
\* returns the N items in order, nothing dropped or duplicated, and requests
\* the offsets 0, 100, ... : max(1, ceil(N/100)) requests, one even when N = 0;
\* a retrieval answered from the cache returns the stored list with no request
C1_PagedRetrieval ==
    /\ (WellBehaved /\ call.input.cap >= limit) =>
          /\ ~ret.raised
          /\ ret.value = Iota(1, call.input.n)
          /\ ret.requests = Offsets(Max(1, CeilDiv(call.input.n, limit)))
    /\ (call.op \in PagedOps /\ call.hit) =>
          /\ ~ret.raised
          /\ ret.value = lru_value(cache[call.op], call.season)
          /\ ret.requests = <<>>

C1_Witness ==
    /\ call.op = "get_all_season_results"
    /\ ~call.hit
    /\ call.input.badAt = 0
    /\ call.input.cap = limit
    /\ call.input.n = 2 * limit + 1
    /\ Len(ret.value) = 2 * limit + 1
    /\ Len(ret.requests) = 3

\* C2 as stated: a failed page request, or a page without the nesting path
\* after earlier pages yielded items, ends the operation in an error, with no
\* partial list and no request after the failing one
C2_AsStated ==
    (/\ BadIssued
     /\ \/ call.input.badKind \in RaisingKinds
        \/ call.input.badKind \in MissingPathKinds /\ call.input.badAt > 1)
    => /\ ret.raised
       /\ ret.value = <<>>
       /\ ret.requests = Offsets(call.input.badAt)

\* the half of C2 that holds: a failed page request (HTTP status, network,
\* malformed JSON) ends the operation in an error, with no value, nothing
\* stored and no request after the failing one
C2_FailedRequest ==
    (BadIssued /\ call.input.badKind \in RaisingKinds) =>
        /\ ret.raised
        /\ ret.value = <<>>
        /\ ret.requests = Offsets(call.input.badAt)
        /\ call.stores = {}

\* the half of C2 that fails: the second page lacks the table, and the caller
\* receives, and the cache stores, the items of the first page
C2_PartialList ==
    /\ call.op = "get_driver_standings"
    /\ ~call.hit
    /\ call.input.badAt = 2
    /\ call.input.badKind = "NO_TABLE"
    /\ call.input.cap = limit
    /\ call.input.n > limit
    /\ ~ret.raised
    /\ ret.value = Iota(1, limit)
    /\ ret.requests = <<0, limit>>
    /\ call.stores = {"get_driver_standings"}
    /\ lru_value(cache["get_driver_standings"], call.season) = Iota(1, limit)

\* C3: when the first page yields no items, or lacks or has empty the nested
\* list of items, the operation returns the empty list without an error after
\* exactly one request
C3_EmptyFirstPage ==
    (/\ PagedAsked
     /\ \/ call.input.badAt = 0 /\ call.input.n = 0
        \/ call.input.badAt = 1 /\ call.input.badKind \in NoPathKinds)
    => /\ ~ret.raised
       /\ ret.value = <<>>
       /\ ret.requests = <<0>>

C3_Witness ==
    /\ call.op = "get_driver_standings"
    /\ ~call.hit
    /\ call.input.badAt = 1
    /\ call.input.badKind = "EMPTY_LISTS"
    /\ call.input.n > 0
    /\ ~ret.raised
    /\ ret.value = <<>>
    /\ ret.requests = <<0>>

-----------------------------------------------------------------------------
(* Claims about get_pilot_stats, checked under SpecStats *)

\* the key the claims give each case of Driver object ("" when there is none);
\* a null givenName is written None
KeyOfCase(who) ==
    CASE who = "A X" -> <<"A", " ", "X">>
      [] who = "B" -> <<"B">>
      [] who = "null name" -> <<"N", "o", "n", "e", " ", "X">>
      [] who \in {"blank", "no name", "no driver", "null"} -> <<>>

\* the integer the claims read in each position value (-1: none)
PositionRead(p) ==
    CASE p \in {<<"1">>, <<"0", "1">>, Num(1), <<"U+FF11">>} -> 1
      [] p \in {<<"0">>, Num(0)} -> 0
      [] p = <<"2">> -> 2
      [] p \in {<<"3">>, Num(3), <<"U+0663">>} -> 3
      [] p = <<"4">> -> 4
      [] p = <<"1", "2">> -> 12
      [] OTHER -> -1

\* the status values that contain one of the six words, case-sensitively
RetiringStatuses ==
    {<<"R", "e", "t", "i", "r", "e", "d">>, <<"A", "c", "c", "i", "d", "e", "n", "t">>, <<"D", "N", "F">>, <<"C", "o", "l", "l", "i", "s", "i", "o", "n", " ", "d", "a", "m", "a", "g", "e">>, <<"E", "n", "g", "i", "n", "e">>, <<"G", "e", "a", "r", "b", "o", "x">>}

\* GET /stats/pilots has returned, and no request of it failed
StatsAsked == call.op = "get_pilot_stats" /\ ~call.failed

\* the rows of the driver key that satisfy test
RowsWith(rows, key, test(_)) ==
    Cardinality({i \in 1..Len(rows) : KeyOfCase(rows[i].who) = key /\ test(rows[i])})

RowKeys(rows) == {KeyOfCase(rows[i].who) : i \in 1..Len(rows)} \ {<<>>}

CountersOf(key) == DictGet(ret.value, key, ZeroStats)

\* C6 as stated: wins +1 iff the parsed position is 1, podiums +1 iff the
\* parsed position is present and <= 3, "0" included; a null, absent or
\* non-numeric position increments neither
C6_AsStated ==
    (StatsAsked /\ ~ret.raised) =>
        \A key \in RowKeys(call.input.rows) :
            /\ CountersOf(key).wins =
                   RowsWith(call.input.rows, key, LAMBDA r : PositionRead(r.position) = 1)
            /\ CountersOf(key).podiums =
                   RowsWith(call.input.rows, key,
                            LAMBDA r : PositionRead(r.position) \in 0..3)

\* C6 amended: in the counters the operation returns, wins +1 iff the parsed
\* position is 1, podiums +1 iff the parsed position is 1, 2 or 3; a position
\* that parses to 0, like a null, absent or non-numeric one, increments neither
C6_WinsAndPodiums ==
    (StatsAsked /\ ~ret.raised) =>
        \A key \in RowKeys(call.input.rows) :
            /\ CountersOf(key).wins =
                   RowsWith(call.input.rows, key, LAMBDA r : PositionRead(r.position) = 1)
            /\ CountersOf(key).podiums =
                   RowsWith(call.input.rows, key,
                            LAMBDA r : PositionRead(r.position) \in 1..3)

C6_Witness ==
    /\ StatsAsked
    /\ ~ret.raised
    /\ Len(call.input.rows) = 2
    /\ call.input.rows[1].who = "A X"
    /\ call.input.rows[1].position = <<"1">>
    /\ call.input.rows[2].who = "A X"
    /\ call.input.rows[2].position = <<"0">>
    /\ CountersOf(<<"A", " ", "X">>).wins = 1
    /\ CountersOf(<<"A", " ", "X">>).podiums = 1

\* the row matches a retirement rule
Retiring(r) == r.position_text = <<"R">> \/ r.status \in RetiringStatuses

\* C7: retirements +1 iff positionText is "R" or the status string contains
\* one of the six words, whatever the position; once per row, and unchanged
\* for a row that matches no rule
C7_Retirements ==
    (StatsAsked /\ ~ret.raised) =>
        \A key \in RowKeys(call.input.rows) :
            CountersOf(key).retirements = RowsWith(call.input.rows, key, Retiring)

C7_Witness ==
    /\ StatsAsked
    /\ ~ret.raised
    /\ Len(call.input.rows) = 2
    /\ call.input.rows[1] = [who |-> "A X", position |-> <<"1">>, position_text |-> <<"R">>,
                             status |-> <<"C", "o", "l", "l", "i", "s", "i", "o", "n", " ", "d", "a", "m", "a", "g", "e">>]
    /\ call.input.rows[2] = [who |-> "A X", position |-> <<"4">>, position_text |-> <<"2", "0">>,
                             status |-> <<"C", "o", "l", "l", "i", "s", "i", "o", "n", " ", "d", "a", "m", "a", "g", "e">>]
    /\ CountersOf(<<"A", " ", "X">>).retirements = 2

-----------------------------------------------------------------------------
(* Claims about get_points_progression, checked under SpecPoints *)

\* the label the claims give each case of race object
LabelOfCase(which) ==
    CASE which \in {"1 R", "round 1"} -> <<"1", " ", "-", " ", "R">>
      [] which = "2 S" -> <<"2", " ", "-", " ", "S">>
      [] which = "bare" -> <<"N", "o", "n", "e", " ", "-", " ", "U", "n", "k", "n", "o", "w", "n">>

\* the points values that are there and that float() rejects
NotNumbers == {Null, <<>>, <<"x">>}

\* the binary64 nearest to n / d
Ratio(n, d) == FloatOfRatio(IF n < 0 THEN -1 ELSE 1, BitsOfNat(Abs(n)), BitsOfNat(d))

\* the number the claims read in each points value: 0 in one that is missing
\* or not a number
PointsRead(p) ==
    CASE p \in {<<"2">>, <<" ", "2">>, <<"U+0662">>} -> Float(2)
      [] p = Num(3) -> Float(3)
      [] p = <<"1", "2", ".", "5">> -> Ratio(25, 2)
      [] p = <<"0", ".", "5">> -> Ratio(1, 2)
      [] p = <<"0", ".", "1">> -> Ratio(1, 10)
      [] p = <<"0", ".", "2">> -> Ratio(2, 10)
      [] p = <<"0", ".", "7">> -> Ratio(7, 10)
      [] p = <<"-", "1">> -> Float(-1)
      [] p = <<"1", "e", "1">> -> Float(10)
      [] p = <<"n", "a", "n">> -> Nan
      [] p \in {Absent} \cup NotNumbers -> Float(0)

\* a < b of two finite floats that are not zero
FiniteLess(a, b) ==
    LET e == Min(a.exp, b.exp)
        x == BitsShift(a.mant, a.exp - e)
        y == BitsShift(b.mant, b.exp - e)
    IN  IF a.sign # b.sign THEN a.sign < b.sign
        ELSE IF a.sign = 1 THEN BitsLess(x, y)
        ELSE BitsLess(y, x)

\* a <= b of two floats: false of nan
FloatLeq(a, b) ==
    /\ a.kind # "nan"
    /\ b.kind # "nan"
    /\ IF a.kind = "inf" THEN a.sign < 0 \/ b = a
       ELSE IF b.kind = "inf" THEN b.sign > 0
       ELSE IF Len(a.mant) = 0 /\ Len(b.mant) = 0 THEN TRUE
       ELSE IF Len(a.mant) = 0 THEN b.sign > 0
       ELSE IF Len(b.mant) = 0 THEN a.sign < 0
       ELSE a = b \/ FiniteLess(a, b)

\* the driver's running total after the rows i.. of a race, in the order of
\* the rows, from the total acc before them
RECURSIVE SumRows(_, _, _, _)
SumRows(rows, key, i, acc) ==
    IF i > Len(rows) THEN acc
    ELSE SumRows(rows, key, i + 1,
                 IF KeyOfCase(rows[i].who) = key
                 THEN FloatAdd(acc, PointsRead(rows[i].points))
                 ELSE acc)

\* the driver's running total over all rows of the race objects 1..i, added
\* one by one as binary64
RECURSIVE SumThrough(_, _, _)
SumThrough(races, i, key) ==
    IF i = 0 THEN Float(0)
    ELSE SumRows(races[i].rows, key, 1, SumThrough(races, i - 1, key))

InRace(races, i, key) ==
    \E j \in 1..Len(races[i].rows) : KeyOfCase(races[i].rows[j].who) = key

EntryOf(races, i) == DictGet(ret.value, LabelOfCase(races[i].which), <<>>)

\* the driver has a row in race object i and an entry under its label
Recorded(races, i, key) == InRace(races, i, key) /\ DictHas(EntryOf(races, i), key)

\* GET /races/points has returned, and no request of it failed
PointsAsked == call.op = "get_points_progression" /\ ~call.failed

Returned == PointsAsked /\ ~ret.raised

DriverKeys == {<<"A", " ", "X">>, <<"B">>}

\* C4 as stated: in the returned table a driver's value at a later race is at
\* least the value at an earlier one, and the value at a race is the sum of
\* the driver's points over all rows of the races up to and including it
C4_AsStated ==
    Returned =>
        \A key \in DriverKeys : \A i \in 1..Len(call.input.races) :
            Recorded(call.input.races, i, key) =>
                /\ DictGet(EntryOf(call.input.races, i), key, Nan)
                       = SumThrough(call.input.races, i, key)
                /\ \A j \in i..Len(call.input.races) :
                       Recorded(call.input.races, j, key) =>
                           FloatLeq(DictGet(EntryOf(call.input.races, i), key, Nan),
                                    DictGet(EntryOf(call.input.races, j), key, Nan))

\* C5 as stated: every row with a non-empty driver key is in the returned
\* table under the label of its race object, also when two race objects carry
\* the same round and raceName; one label per race object, in their order
C5_AsStated ==
    Returned =>
        /\ Len(ret.value) = Len(call.input.races)
        /\ \A i \in 1..Len(call.input.races) :
               /\ ret.value[i].k = LabelOfCase(call.input.races[i].which)
               /\ \A j \in 1..Len(call.input.races[i].rows) :
                      KeyOfCase(call.input.races[i].rows[j].who) # <<>>
                          => DictHas(EntryOf(call.input.races, i),
                                     KeyOfCase(call.input.races[i].rows[j].who))

\* the labels of the race objects are all different
DistinctLabels ==
    \A i, j \in 1..Len(call.input.races) :
        i # j => LabelOfCase(call.input.races[i].which) # LabelOfCase(call.input.races[j].which)

\* no row scores less than nothing, or nan
ScoresCount ==
    \A i \in 1..Len(call.input.races) : \A j \in 1..Len(call.input.races[i].rows) :
        FloatLeq(Float(0), PointsRead(call.input.races[i].rows[j].points))

\* C4 and C5 hold of a season whose race objects all have different labels
\* and whose rows score numbers that are not negative
C4_C5_DistinctLabels ==
    (PointsAsked /\ DistinctLabels /\ ScoresCount) => (C4_AsStated /\ C5_AsStated)

\* a row makes the operation raise: a null Driver, or a non-empty driver key
\* with points that are no number
RowRaises(r) ==
    \/ r.who = "null"
    \/ KeyOfCase(r.who) # <<>> /\ r.points \in NotNumbers

SomeRowRaises(races) ==
    \E i \in 1..Len(races) : \E j \in 1..Len(races[i].rows) : RowRaises(races[i].rows[j])

\* under the label of every race object, every driver with a row in it holds
\* the running total through that race object, of the points read by PointsRead
SumsRecorded(races) ==
    \A i \in 1..Len(races) : \A key \in DriverKeys :
        InRace(races, i, key) =>
            /\ DictHas(EntryOf(races, i), key)
            /\ DictGet(EntryOf(races, i), key, Nan) = SumThrough(races, i, key)

\* a row has a null Driver
NullDriver(races) ==
    \E i \in 1..Len(races) : \E j \in 1..Len(races[i].rows) : races[i].rows[j].who = "null"

\* C8 as stated: a row whose points are missing or non-numeric adds 0: the
\* operation goes on, the driver is recorded under the race with the running
\* total unchanged, and the other totals are not affected
C8_AsStated ==
    (PointsAsked /\ ~NullDriver(call.input.races)) =>
        /\ ~ret.raised
        /\ SumsRecorded(call.input.races)

\* what holds of C8: the operation raises exactly when a row has a null
\* Driver, or a non-empty driver key with points that are there and that
\* float() rejects; a row whose points field is missing adds 0 and, in a season
\* whose race objects all have different labels, is recorded under its race
C8_DistinctLabels ==
    PointsAsked =>
        /\ ret.raised <=> SomeRowRaises(call.input.races)
        /\ ret.raised => ret.value = <<>> /\ ret.status = 500
        /\ (~ret.raised /\ DistinctLabels) => SumsRecorded(call.input.races)

\* the entry of the first race object, whose row has no points, is replaced
\* by the entry of the second one
C8_Overwritten ==
    /\ PointsAsked
    /\ ~ret.raised
    /\ Len(call.input.races) = 2
    /\ call.input.races[1] = [which |-> "1 R", rows |-> <<[who |-> "A X", points |-> Absent]>>]
    /\ call.input.races[2] = [which |-> "1 R", rows |-> <<[who |-> "B", points |-> <<"2">>]>>]
    /\ ret.value = <<[k |-> <<"1", " ", "-", " ", "R">>, v |-> <<[k |-> <<"B">>, v |-> Float(2)]>>]>>

-----------------------------------------------------------------------------
(* Claim about the driver key, checked under SpecKeys *)

\* s without its leading and trailing whitespace, by the places of the others
Trimmed(s) ==
    LET solid == {i \in 1..Len(s) : s[i] \notin Whitespace}
    IN  IF solid = {} THEN <<>>
        ELSE SubSeq(s, CHOOSE i \in solid : \A j \in solid : i <= j,
                       CHOOSE i \in solid : \A j \in solid : i >= j)

\* the text of a name field: nothing when absent, None when null
Text(x) == IF x = Absent THEN <<>> ELSE IF x = Null THEN <<"N", "o", "n", "e">> ELSE x

\* givenName, one space, familyName, trimmed
KeyOfName(n) == Trimmed(Text(n.given) \o <<" ">> \o Text(n.family))

RowsOfKey(names, key) == Cardinality({i \in 1..Len(names) : KeyOfName(names[i]) = key})

KeysOf(names) == {KeyOfName(names[i]) : i \in 1..Len(names)} \ {<<>>}

DictKeys(d) == {d[i].k : i \in 1..Len(d)}

\* the table of GET /races/points for season 1, once stored
PointsTable == lru_value(cache["get_points_progression"], 1)

\* GET /stats/pilots has returned and the table of GET /races/points is stored
BothAnswered ==
    /\ call.op = "get_pilot_stats"
    /\ lru_has(cache["get_points_progression"], 1)

\* C9: in both operations the driver key is givenName, a space, familyName,
\* trimmed; a row whose key is empty is in no output, and changes no running
\* total and no counter
C9_DriverKeys ==
    /\ call.op = "get_points_progression" =>
          LET entry == DictGet(ret.value, <<"1", " ", "-", " ", "R">>, <<>>)
          IN  /\ ~ret.raised
              /\ DictKeys(entry) = KeysOf(call.input.names)
              /\ <<>> \notin DictKeys(entry)
              /\ \A key \in KeysOf(call.input.names) :
                     DictGet(entry, key, Nan) = Float(2 * RowsOfKey(call.input.names, key))
    /\ call.op = "get_pilot_stats" =>
          /\ ~ret.raised
          /\ DictKeys(ret.value) = KeysOf(call.input.names)
          /\ <<>> \notin DictKeys(ret.value)
          /\ \A key \in KeysOf(call.input.names) :
                 DictGet(ret.value, key, ZeroStats) =
                     [wins        |-> RowsOfKey(call.input.names, key),
                      podiums     |-> RowsOfKey(call.input.names, key),
                      retirements |-> RowsOfKey(call.input.names, key)]

C9_Witness ==
    /\ BothAnswered
    /\ Len(call.input.names) = 2
    /\ call.input.names[1] = [has |-> TRUE, given |-> <<"U+00A0">>, family |-> <<"\n">>]
    /\ call.input.names[2] = [has |-> TRUE, given |-> <<"\r", "A">>,
                              family |-> <<"X", "U+001C">>]
    /\ DictKeys(ret.value) = {<<"A", " ", "X">>}
    /\ DictKeys(DictGet(PointsTable, <<"1", " ", "-", " ", "R">>, <<>>)) = {<<"A", " ", "X">>}

-----------------------------------------------------------------------------
(* Claim about memoization, checked under SpecCache *)

\* what the undecorated operation gives for the season when no request fails
Uncached(f, season) ==
    CASE f = "get_driver_standings" -> get_driver_standings(World(FALSE), season)
      [] f = "get_constructor_standings" -> get_constructor_standings(World(FALSE), season)
      [] f = "get_all_season_results" -> get_all_season_results(World(FALSE), season)
      [] f = "get_points_progression" ->
             points_progression_body(get_all_season_results(World(FALSE), season).value)
      [] f = "get_pilot_stats" ->
             pilot_stats_body(get_all_season_results(World(FALSE), season).value)

\* a call of a cached operation has returned
Called == call.op \in CachedOps

\* every successful call returns what an uncached execution returns, and no
\* cache holds more than maxsize seasons or a season twice
SameAsUncached ==
    /\ ~ret.raised =>
          LET uncached == Uncached(call.op, call.season)
          IN  ~uncached.raised /\ ret.value = uncached.value
    /\ \A f \in CachedOps :
          /\ Len(cache[f]) <= maxsize
          /\ Cardinality({cache[f][i].k : i \in 1..Len(cache[f])}) = Len(cache[f])

====
